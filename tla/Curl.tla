-------------------------------- MODULE Curl --------------------------------
(***************************************************************************)
(* The class curl_t of 003/curl_builder.cpp.  url_post and url_get set     *)
(* options of one easy handle that outlive the call; libcurl keeps some of *)
(* them as pointers.  The model relates the pointers to what is allocated, *)
(* and each request to the arguments of its call.                          *)
(***************************************************************************)
EXTENDS Integers, Sequences, FiniteSets

CONSTANTS
  CurlFaults,  \* the calls that may fail
  MaxRequests, \* bound: calls of url_post and url_get
  MaxPieces    \* bound: pieces in which a response arrives

CurlCalls == {"global_init", "easy_init", "append", "mime_init", "perform"}

ASSUME CurlAssumption ==
  CurlFaults \subseteq CurlCalls /\ MaxRequests \in Nat /\ MaxPieces \in Nat

VARIABLES
  curl_handle,  \* "null", "open" or "cleaned"
  easy,         \* the options of the handle
  call,         \* the call in progress, or the last one: its arguments and locals
  where,        \* how far it has come
  heap,         \* the objects that exist
  buff,         \* the pieces of responses in the string of that name
  sent,         \* what the last curl_easy_perform sent
  stale         \* it used an option whose object is gone: undefined behaviour

curlVars == <<curl_handle, easy, call, where, heap, buff, sent, stale>>

Null == <<"null", 0>>

\* A list ("GET" or "POST", by the call that makes it), a form, the caller's data.
Obj(kind, n) == <<kind, n>>

Nothing == [method |-> "GET", headers |-> {}, body |-> Null]

NoCall == [n |-> 0, verb |-> "none", head |-> 0, left |-> 0, data |-> FALSE,
           slist |-> Null, lines |-> {}, cut |-> FALSE, mime |-> Null, code |-> 0]

CurlInit ==
  /\ curl_handle = "null"
  /\ easy = [method |-> "GET", HTTPHEADER |-> Null, MIMEPOST |-> Null, POSTFIELDS |-> Null]
  /\ call = NoCall /\ where = "init"
  /\ heap = {} /\ buff = <<>> /\ sent = Nothing /\ stale = FALSE

CurlTypeOK ==
  /\ curl_handle \in {"null", "open", "cleaned"}
  /\ DOMAIN easy = {"method", "HTTPHEADER", "MIMEPOST", "POSTFIELDS"}
  /\ easy.method \in {"GET", "POST", "MIME"}
  /\ call.n \in 0..MaxRequests /\ call.verb \in {"none", "GET", "POST"}
  /\ call.left \in 0..call.head /\ call.lines \subseteq 1..call.head /\ call.code \in {-1, 0}
  /\ where \in {"init", "idle", "head", "perform", "receive", "free", "gone"}
  /\ \A x \in heap : x[1] \in {"GET", "POST", "mime", "data"}
  /\ buff \in Seq(1..MaxRequests) /\ Len(buff) <= MaxPieces
  /\ stale \in BOOLEAN

-----------------------------------------------------------------------------
(* libcurl, as far as the class uses it                                    *)

\* curl_easy_setopt does nothing when the handle is null.
Setopt(options) ==
  easy' = IF curl_handle = "open" THEN options ELSE easy

\* What a perform with these options sends: a form for CURLOPT_MIMEPOST, which
\* was the last to say what is sent, POSTFIELDS for CURLOPT_POST.
Body(o) == CASE o.method = "MIME" -> o.MIMEPOST [] o.method = "POST" -> o.POSTFIELDS [] OTHER -> Null

\* The objects it reads.
Used(o) == {o.HTTPHEADER, Body(o)} \ {Null}

-----------------------------------------------------------------------------
(* curl_t                                                                  *)

Here(l) == ~stale /\ where = l

\* init fails when the library or the handle cannot be had; main goes on.
CurlStart ==
  /\ Here("init") /\ where' = "idle"
  /\ \/ curl_handle' = "open"
     \/ {"global_init", "easy_init"} \cap CurlFaults # {} /\ UNCHANGED curl_handle
  /\ UNCHANGED <<easy, call, heap, buff, sent, stale>>

\* url_post is called with head header lines, and data or not; data is the
\* caller's and lives as long as the call.
UrlPost(head, data) ==
  /\ Here("idle") /\ call.n < MaxRequests
  /\ Setopt([easy EXCEPT !.method = "POST"])
  /\ buff' = <<>>
  /\ call' = [NoCall EXCEPT !.n = call.n + 1, !.verb = "POST", !.head = head, !.left = head,
                            !.data = data]
  /\ heap' = heap \cup {Obj("data", call.n + 1) : d \in {data} \ {FALSE}}
  /\ where' = "head"
  /\ UNCHANGED <<curl_handle, sent, stale>>

\* Mutant: CURLOPT_HTTPGET is not set.
UrlGetPosts ==
  /\ Here("idle") /\ call.n < MaxRequests
  /\ buff' = <<>>
  /\ call' = [NoCall EXCEPT !.n = call.n + 1, !.verb = "GET", !.head = 1, !.left = 1]
  /\ where' = "head"
  /\ UNCHANGED <<curl_handle, easy, heap, sent, stale>>

\* url_get sends one header line.
UrlGet ==
  /\ Here("idle") /\ call.n < MaxRequests
  /\ Setopt([easy EXCEPT !.method = "GET"])
  /\ buff' = <<>>
  /\ call' = [NoCall EXCEPT !.n = call.n + 1, !.verb = "GET", !.head = 1, !.left = 1]
  /\ where' = "head"
  /\ UNCHANGED <<curl_handle, heap, sent, stale>>

\* curl_slist_append and the option: the list's first node is the list.  When it
\* fails it returns NULL and what was appended so far is referred to by nothing.
AppendHeader ==
  /\ Here("head") /\ call.left > 0
  /\ LET slist == IF call.slist = Null THEN Obj(call.verb, 10 * call.n + call.left) ELSE call.slist
     IN  \/ /\ heap' = heap \cup {slist}
            /\ call' = [call EXCEPT !.left = @ - 1, !.slist = slist, !.lines = @ \cup {call.left}]
            /\ Setopt([easy EXCEPT !.HTTPHEADER = slist])
         \/ /\ "append" \in CurlFaults /\ UNCHANGED heap
            /\ call' = [call EXCEPT !.left = @ - 1, !.slist = Null, !.lines = {}, !.cut = TRUE]
            /\ Setopt([easy EXCEPT !.HTTPHEADER = Null])
  /\ UNCHANGED <<curl_handle, where, buff, sent, stale>>

\* The body of a POST: a form when data is empty, else data itself.
SetBody ==
  /\ Here("head") /\ call.left = 0
  /\ where' = "perform"
  /\ \/ call.verb = "GET" /\ UNCHANGED <<easy, call, heap>>
     \/ /\ call.verb = "POST" /\ call.data
        /\ Setopt([easy EXCEPT !.method = "POST", !.POSTFIELDS = Obj("data", call.n)])
        /\ UNCHANGED <<call, heap>>
     \/ /\ call.verb = "POST" /\ ~call.data
        /\ \E mime \in {Obj("mime", call.n)}
                         \cup {Null : x \in {"mime_init"} \cap CurlFaults} :
             /\ call' = [call EXCEPT !.mime = mime]
             /\ heap' = heap \cup ({mime} \ {Null})
             /\ Setopt([easy EXCEPT !.method = "MIME", !.MIMEPOST = mime])
  /\ UNCHANGED <<curl_handle, buff, sent, stale>>

\* curl_easy_perform sends the request; without a handle it fails.
Perform ==
  /\ Here("perform")
  /\ IF curl_handle # "open"
       THEN /\ call' = [call EXCEPT !.code = -1] /\ where' = "free"
            /\ UNCHANGED <<sent, stale>>
       ELSE /\ sent' = [method |-> IF easy.method = "MIME" THEN "POST" ELSE easy.method,
                        headers |-> IF easy.HTTPHEADER = call.slist THEN call.lines ELSE {0},
                        body |-> Body(easy)]
            /\ stale' = ~(Used(easy) \subseteq heap)
            /\ where' = "receive" /\ UNCHANGED call
  /\ UNCHANGED <<curl_handle, easy, heap, buff>>

\* receive_data is called for each piece of the response.
receive_data ==
  /\ Here("receive") /\ Len(buff) < MaxPieces
  /\ buff' = Append(buff, call.n)
  /\ UNCHANGED <<curl_handle, easy, call, where, heap, sent, stale>>

\* The transfer ends, or fails after some of it.
PerformEnds ==
  /\ Here("receive") /\ where' = "free"
  /\ \E code \in {0} \cup {-1 : x \in {"perform"} \cap CurlFaults} :
       call' = [call EXCEPT !.code = code]
  /\ UNCHANGED <<curl_handle, easy, heap, buff, sent, stale>>

\* curl_mime_free takes the form out of the handle.
Unbound == [easy EXCEPT !.MIMEPOST = IF @ = call.mime THEN Null ELSE @]

\* Mutant: the form of a post is not freed.
PostReturnLeaks ==
  /\ Here("free") /\ call.verb = "POST" /\ where' = "idle"
  /\ heap' = heap \ {call.slist, Obj("data", call.n)}
  /\ UNCHANGED <<curl_handle, easy, call, buff, sent, stale>>

\* The list and the form are freed; the list stays an option.
PostReturn ==
  /\ Here("free") /\ call.verb = "POST" /\ where' = "idle"
  /\ heap' = heap \ {call.slist, call.mime, Obj("data", call.n)}
  /\ easy' = Unbound
  /\ UNCHANGED <<curl_handle, call, buff, sent, stale>>

\* Mutant: the option is left as it is.
GetReturnKeeps ==
  /\ Here("free") /\ call.verb = "GET" /\ where' = "idle"
  /\ heap' = heap \ {call.slist}
  /\ UNCHANGED <<curl_handle, easy, call, buff, sent, stale>>

\* The list is freed and taken out of the options.
GetReturn ==
  /\ Here("free") /\ call.verb = "GET" /\ where' = "idle"
  /\ heap' = heap \ {call.slist}
  /\ Setopt([easy EXCEPT !.HTTPHEADER = Null])
  /\ UNCHANGED <<curl_handle, call, buff, sent, stale>>

\* The destructor.
CurlDestroy ==
  /\ Here("idle") /\ where' = "gone"
  /\ curl_handle' = IF curl_handle = "null" THEN "null" ELSE "cleaned"
  /\ UNCHANGED <<easy, call, heap, buff, sent, stale>>

CurlNext ==
  \/ CurlStart
  \/ \E head \in 0..2, data \in BOOLEAN : UrlPost(head, data)
  \/ UrlGet \/ AppendHeader \/ SetBody \/ Perform \/ receive_data \/ PerformEnds
  \/ PostReturn \/ GetReturn \/ CurlDestroy

CurlSpec == CurlInit /\ [][CurlNext]_curlVars

-----------------------------------------------------------------------------
(* Properties                                                              *)

\* A request is the one its call asked for: its method, all its header lines and
\* its own body, never those of an earlier call on the same handle (the options
\* of curl_builder.cpp:59, 69, 83, 85, 102, 108 stay set), unless appending one
\* of the lines failed, or a post without header lines uses what one with lines left.
\* And buff holds the response to it and nothing of an earlier one, however that
\* ended, and nothing at all if the call could not be made.
OwnOnly ==
  /\ CurlTypeOK
  /\ where \in {"receive", "free"} /\ ~stale /\ curl_handle = "open" =>
       /\ sent.method = call.verb
       /\ IF call.cut THEN sent.headers \subseteq 1..call.head ELSE sent.headers = 1..call.head
       /\ sent.body = IF call.verb = "GET" THEN Null
                      ELSE IF call.data THEN Obj("data", call.n) ELSE call.mime
  /\ \A i \in 1..Len(buff) : buff[i] = call.n
  /\ curl_handle = "null" => buff = <<>>

\* A freed object is used in one case only: a header list, by a post without
\* header lines, after a post with some and no get since (curl_builder.cpp:94
\* frees the list and leaves the option); never a form, a body, or by a get.
StaleListOnly ==
  stale => /\ call.verb = "POST" /\ call.head = 0
           /\ easy.HTTPHEADER[1] = "POST" /\ easy.HTTPHEADER \notin heap
           /\ Used(easy) \ {easy.HTTPHEADER} \subseteq heap

\* Between calls nothing that a call allocated is left, but a header list to
\* which appending failed; whether a handle could be made or not.
CurlNoLeak ==
  /\ where \in {"idle", "gone"} => \A x \in heap : x[1] = "POST" /\ "append" \in CurlFaults
  /\ where = "gone" => curl_handle # "open"
=============================================================================
