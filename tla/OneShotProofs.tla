--------------------------- MODULE OneShotProofs ----------------------------
(***************************************************************************)
(* Proofs about the programs of MCOneShot that run once: the decoder of    *)
(* 006/pic_op.c, the class curl_t of 003/curl_builder.cpp, the network     *)
(* tools 010, 012 and 013, and get_node_size of 008/main.cpp, for every set*)
(* of failing calls, any number of requests, of pieces of a response, of   *)
(* calls and of list entries, and any programs that change files meanwhile.*)
(***************************************************************************)
EXTENDS PicOp, Curl, NetTools, NodeSize, SequenceTheorems, WellFoundedInduction, TLAPS

-----------------------------------------------------------------------------
(* The picture decoder                                                     *)

\* The program points of each function.
Function ==
  /\ fn = "wrap" => pc \in Wrap \cup {"cleanup", "exit"}
  /\ fn = "data" => pc \in Alloc \cup Demux \cup Decode \cup Convert
                             \cup {"ending3", "ending2", "ending1", "return"}
  /\ fn = "path" => pc \in Demux \cup Decode \cup Convert \cup Endings \cup {"return"}

\* From where on a packet is read, a decoder opened, and pictures converted.
Reading == (Decode \ {"format"}) \cup Convert \cup (Endings \ {"ending1"})
Decoding == (Reading \ {"read_frame", "frame_alloc", "find_decoder", "ending2"})

\* The points after pic_demux has been called.
Opened == Demux \cup Decode \cup Convert \cup Endings

\* What each function has set, and may still free, at each point.
Ladder ==
  /\ ptr["ifmt_ctx"] = "set" => pc \in {"av_malloc", "alloc_avio"} \cup Opened
  /\ ptr["avio_ctx"] = "set" => pc \in Opened
  /\ ptr["avio_ctx_buffer"] = "set" =>
       pc \in {"alloc_avio", "return", "cleanup", "exit"} \cup Opened
  /\ ptr["packet"] = "set" => pc \in Reading \ {"read_frame"}
  /\ ptr["frame"] = "set" => pc \in Reading \ {"read_frame", "frame_alloc"}
  /\ ptr["codec_ctx"] = "set" => pc \in Decoding \ {"alloc_context3"}
  /\ ptr["buffer"] = "set" => pc \in Convert \cup {"ending4", "ending3"}
  /\ ptr["sws_dst_data"] = "set" => pc \in {"getContext", "copy_to_buffer"}
  /\ ptr["sws_ctx"] = "set" => pc = "copy_to_buffer"
  /\ pc = "ending3" /\ fn = "path" => ptr["buffer"] # "set"

\* The pointers that have a value where they are freed.
Initialised ==
  /\ pc \in Reading => ptr["packet"] # "uninit" /\ ptr["frame"] # "uninit"
  /\ pc \in Decoding => ptr["codec_ctx"] # "uninit"
  /\ pc \in Convert \cup {"ending4"} => ptr["buffer"] # "uninit"
  /\ \A x \in {"ifmt_ctx", "avio_ctx", "avio_ctx_buffer", "file_buffer"} : ptr[x] # "uninit"
  /\ fn = "data" \/ pc \in {"read", "cleanup"} => ptr["fd"] # "uninit"

\* The memory of pic_open_data is referred to by its context, unless that could
\* not be made.
InputContext ==
  /\ ptr["avio_ctx"] = "set" => fn = "data"
  /\ ptr["avio_ctx_buffer"] = "set" => fn # "path"
  /\ ptr["avio_ctx_buffer"] = "set" /\ ptr["avio_ctx"] # "set" /\ pc # "alloc_avio"
       => "alloc_avio" \in Faults /\ ret = -1

\* The buffer and the descriptor of pic_open_data_wrap.
WrapInv ==
  /\ fn = "path" => ptr["file_buffer"] # "set" /\ ptr["fd"] # "set"
  /\ pc \in {"stat", "malloc_file"} => ptr["file_buffer"] # "set"
  /\ pc \in {"stat", "malloc_file", "open"} => ptr["fd"] # "set"
  /\ pc = "exit" => ptr["file_buffer"] # "set" /\ ptr["fd"] # "set"

PicInv ==
  /\ TypeOK
  /\ failed <=> ret = -1
  /\ \A x \in Object : x \in live <=> ptr[x] = "set"
  /\ Function /\ Ladder /\ Initialised /\ InputContext /\ WrapInv
  /\ SafeFrees

\* Type correctness is preserved by every step.
LEMMA TypeNext ==
  ASSUME TypeOK, Next
  PROVE  TypeOK'
<1> USE DEF Next, CallWrap, StatFile, MallocFile, OpenFile, ReadFile, Return, CleanUp,
            AllocContext, AvMalloc, AllocAvio, OpenInput, Streams, Format, ReadFrame,
            FrameAlloc, FindDecoder, AllocContext3, DecodePacket, Malloc, ImageAlloc,
            GetContext, CopyToBuffer, Ending4, Ending3, Ending2, Ending1, Label, Go, Fail
<1>1. fn' \in {"path", "wrap", "data"} /\ ret' \in {-1, 0} /\ failed' \in BOOLEAN
  BY DEF TypeOK
<1>2. pc' \in Calls \cup Endings \cup {"return", "cleanup", "exit"}
  BY DEF TypeOK, Calls, Endings, Wrap, Alloc, Demux, Decode, Convert, DemuxExit, ConvertExit
<1>3. ptr' \in [Object -> {"uninit", "null", "set"}]
  BY DEF TypeOK, Get, Keep, Free, Start
<1>4. live' \subseteq Object /\ bad' \subseteq Object
  BY DEF TypeOK, Get, Keep, Free, Object, Local, WrapLocal
<1> QED
  BY <1>1, <1>2, <1>3, <1>4 DEF TypeOK

\* The invariant holds initially.
LEMMA PicInit == Init => PicInv
<1> SUFFICES ASSUME Init PROVE PicInv
  OBVIOUS
<1> USE DEF Init
<1>1. TypeOK
  BY DEF TypeOK, Start, Object, Local, WrapLocal, Calls, Demux
<1>2. \A x \in Object :
        ptr[x] = IF x \in {"ifmt_ctx", "avio_ctx_buffer", "avio_ctx", "file_buffer"} THEN "null"
                 ELSE "uninit"
  BY DEF Start
<1>3. \A x \in Object : ptr[x] # "set"
  BY <1>2
<1>4. Function
  BY DEF Function, Demux
<1>5. Ladder
  BY <1>3 DEF Ladder, Object, Local
<1>6. Initialised
  BY <1>2 DEF Initialised, Object, Local, WrapLocal, Reading, Decoding, Convert, Decode,
              Endings
<1>7. InputContext /\ WrapInv
  BY <1>3 DEF InputContext, WrapInv, Object, Local, WrapLocal
<1> QED
  BY <1>1, <1>3, <1>4, <1>5, <1>6, <1>7 DEF PicInv, SafeFrees

\* Every step preserves the invariant.
LEMMA PicNext ==
  ASSUME PicInv, Next
  PROVE  PicInv'
<1>0. TypeOK'
  BY TypeNext DEF PicInv
<1> USE DEF Next, CallWrap, StatFile, MallocFile, OpenFile, ReadFile, Return, CleanUp,
            AllocContext, AvMalloc, AllocAvio, OpenInput, Streams, Format, ReadFrame,
            FrameAlloc, FindDecoder, AllocContext3, DecodePacket, Malloc, ImageAlloc,
            GetContext, CopyToBuffer, Ending4, Ending3, Ending2, Ending1, Label, Go, Fail,
            Free, Keep, Get, Start, At, DemuxExit, ConvertExit,
            Wrap, Alloc, Demux, Decode, Convert, Endings, Reading, Decoding, Opened,
            Object, Local, WrapLocal, PicInv, TypeOK
<1>1. Function' /\ (failed <=> ret = -1)'
  <2>1. Function'
    BY DEF Function
  <2>2. (failed <=> ret = -1)'
    OBVIOUS
  <2> QED
    BY <2>1, <2>2
<1>2. Ladder'
  <2>1. (ptr["ifmt_ctx"] = "set" => pc \in {"av_malloc", "alloc_avio"} \cup Opened)'
    BY DEF Ladder
  <2>2. (ptr["avio_ctx"] = "set" => pc \in Opened)'
    BY DEF Ladder, InputContext
  <2>3. (ptr["avio_ctx_buffer"] = "set" =>
           pc \in {"alloc_avio", "return", "cleanup", "exit"} \cup Opened)'
    BY DEF Ladder
  <2>4. (ptr["packet"] = "set" => pc \in Reading \ {"read_frame"})'
    BY DEF Ladder
  <2>5. (ptr["frame"] = "set" => pc \in Reading \ {"read_frame", "frame_alloc"})'
    BY DEF Ladder
  <2>6. (ptr["codec_ctx"] = "set" => pc \in Decoding \ {"alloc_context3"})'
    BY DEF Ladder
  <2>7. (ptr["buffer"] = "set" => pc \in Convert \cup {"ending4", "ending3"})'
    BY DEF Ladder, Function
  <2>8. (ptr["sws_dst_data"] = "set" => pc \in {"getContext", "copy_to_buffer"})'
    BY DEF Ladder
  <2>9. (ptr["sws_ctx"] = "set" => pc = "copy_to_buffer")'
    BY DEF Ladder
  <2>10. (pc = "ending3" /\ fn = "path" => ptr["buffer"] # "set")'
    BY DEF Ladder, Function
  <2> QED
    BY <2>1, <2>2, <2>3, <2>4, <2>5, <2>6, <2>7, <2>8, <2>9, <2>10 DEF Ladder
<1>3. Initialised'
  <2>1. (pc \in Reading => ptr["packet"] # "uninit" /\ ptr["frame"] # "uninit")'
    BY DEF Initialised
  <2>2. (pc \in Decoding => ptr["codec_ctx"] # "uninit")'
    BY DEF Initialised
  <2>3. (pc \in Convert \cup {"ending4"} => ptr["buffer"] # "uninit")'
    BY DEF Initialised, Function
  <2>4. (\A x \in {"ifmt_ctx", "avio_ctx", "avio_ctx_buffer", "file_buffer"} :
           ptr[x] # "uninit")'
    BY DEF Initialised
  <2>5. (fn = "data" \/ pc \in {"read", "cleanup"} => ptr["fd"] # "uninit")'
    BY DEF Initialised, Function
  <2> QED
    BY <2>1, <2>2, <2>3, <2>4, <2>5 DEF Initialised
<1>4. InputContext'
  <2>1. (ptr["avio_ctx"] = "set" => fn = "data")'
    BY DEF InputContext, Ladder, Function
  <2>2. (ptr["avio_ctx_buffer"] = "set" => fn # "path")'
    BY DEF InputContext, Ladder, Function
  <2>3. (ptr["avio_ctx_buffer"] = "set" /\ ptr["avio_ctx"] # "set" /\ pc # "alloc_avio"
           => "alloc_avio" \in Faults /\ ret = -1)'
    BY DEF InputContext, Ladder, Function
  <2> QED
    BY <2>1, <2>2, <2>3 DEF InputContext
<1>5. WrapInv'
  BY DEF WrapInv, Function
<1>6. SafeFrees'
  BY DEF SafeFrees, Function, Initialised, Dangling
<1>7. (\A x \in Object : x \in live <=> ptr[x] = "set")'
  BY DEF Ladder, InputContext, Function, WrapInv
<1> HIDE DEF PicInv, TypeOK, Next
<1> QED
  BY <1>0, <1>1, <1>2, <1>3, <1>4, <1>5, <1>6, <1>7 DEF PicInv

\* The types, the ladders of labels and what is allocated agree at every point of
\* the three functions.
THEOREM PicInvCorrect == Spec => []PicInv
<1>1. PicInv /\ UNCHANGED vars => PicInv'
  BY DEF vars, PicInv, TypeOK, Function, Ladder, Initialised, InputContext, WrapInv,
         SafeFrees
<1> QED
  BY PicInit, PicNext, <1>1, PTL DEF Spec

\* No ladder of pic_op.c leaves anything allocated, whichever calls fail, but the
\* buffer of a failed avio_alloc_context.
THEOREM LaddersComplete == Spec => []NoLeak
<1>1. PicInv => NoLeak
  <2> SUFFICES ASSUME PicInv PROVE NoLeak
    OBVIOUS
  <2>1. pc = "return" => live \cap Local \subseteq Lost
    BY DEF PicInv, Ladder, TypeOK, Object, Local, WrapLocal, Reading, Decoding, Opened,
           Demux, Decode, Convert, Endings, Lost
  <2>2. pc = "exit" => live \subseteq Lost
    BY DEF PicInv, Ladder, WrapInv, TypeOK, Object, Local, WrapLocal, Reading, Decoding,
           Opened, Demux, Decode, Convert, Endings, Lost
  <2>3. live \cap Lost # {} /\ pc = "return" => "alloc_avio" \in Faults /\ ret < 0
    BY DEF PicInv, Ladder, InputContext, TypeOK, Object, Local, Opened, Demux, Decode,
           Convert, Endings, Lost
  <2> QED
    BY <2>1, <2>2, <2>3 DEF NoLeak, PicInv
<1> QED
  BY PicInvCorrect, <1>1, PTL

\* Nothing is freed that is not allocated, but buffer in pic_open_data.
THEOREM FreesSafe == Spec => []SafeFrees
<1>1. PicInv => SafeFrees
  BY DEF PicInv
<1> QED
  BY PicInvCorrect, <1>1, PTL

\* The result of each function tells whether one of its calls failed.
THEOREM ErrorsCorrect == Spec => []ErrorsReported
<1>1. PicInv => ErrorsReported
  BY DEF PicInv, TypeOK, ErrorsReported
<1> QED
  BY PicInvCorrect, <1>1, PTL

\* The calls of pic_open_data that jump over the initialisation of buffer
\* (pic_op.c:333) to the label that frees it are the only reason why the program
\* may abort: where they succeed, pic_open_data returns.
THEOREM ReturnsUnlessDecoderFails ==
  ASSUME Faults \cap {"find_decoder", "alloc_context3", "open2", "send_packet",
                      "receive_frame"} = {}
  PROVE  Spec => []FailureReturns
<1> DEFINE Ready == pc = "ending3" /\ fn = "data" => ptr["buffer"] # "uninit"
           Good == PicInv /\ Ready /\ FailureReturns
<1>1. Init => Good
  BY PicInit DEF Init, FailureReturns
<1>2. ASSUME Good, Next
      PROVE  Good'
  <2> USE DEF Next, CallWrap, StatFile, MallocFile, OpenFile, ReadFile, Return, CleanUp,
              AllocContext, AvMalloc, AllocAvio, OpenInput, Streams, Format, ReadFrame,
              FrameAlloc, FindDecoder, AllocContext3, DecodePacket, Malloc, ImageAlloc,
              GetContext, CopyToBuffer, Ending4, Ending3, Ending2, Ending1, Label, Go, Fail,
              Free, Keep, Get, At, DemuxExit, ConvertExit,
              Object, Local, WrapLocal, PicInv, TypeOK
  <2>1. Ready'
    BY <1>2 DEF Initialised, Convert, Function
  <2>2. FailureReturns'
    BY <1>2 DEF FailureReturns, Initialised, Dangling, Reading, Decoding, Decode, Convert,
                Endings
  <2> QED
    BY <1>2, <2>1, <2>2, PicNext
<1>3. Good /\ UNCHANGED vars => Good'
  BY DEF vars, FailureReturns, PicInv, TypeOK, Function, Ladder, Initialised, InputContext,
         WrapInv, SafeFrees
<1> QED
  BY <1>1, <1>2, <1>3, PTL DEF Spec

-----------------------------------------------------------------------------
(* The curl wrapper                                                        *)

CurlObject == {"null", "GET", "POST", "mime", "data"} \X Nat

CallRecord ==
  [n : Nat, verb : {"none", "GET", "POST"}, head : Nat, left : Nat, data : BOOLEAN,
   slist : CurlObject, lines : SUBSET Nat, cut : BOOLEAN, mime : CurlObject, code : {-1, 0}]

EasyRecord ==
  [method : {"GET", "POST", "MIME"}, HTTPHEADER : CurlObject, MIMEPOST : CurlObject,
   POSTFIELDS : CurlObject]

CurlRecords == call \in CallRecord /\ easy \in EasyRecord

\* A call has begun and not yet returned.
InCall == where \in {"head", "perform", "receive", "free"}

HandleInv ==
  /\ where = "init" => curl_handle = "null"
  /\ where = "receive" => curl_handle = "open"
  /\ curl_handle = "cleaned" => where = "gone"
  /\ where = "gone" => curl_handle # "open"

\* The arguments and locals of the call in progress, and that its objects exist.
CallInv ==
  InCall =>
    /\ call.n > 0 /\ call.verb # "none"
    /\ call.verb = "GET" => call.head = 1 /\ ~call.data
    /\ where # "head" => call.left = 0
    /\ ~call.cut => call.lines = (call.left + 1)..call.head
    /\ call.slist # Null =>
         call.slist[1] = call.verb /\ call.slist \in heap /\ call.left < call.head
    /\ call.data => Obj("data", call.n) \in heap
    /\ where = "head" \/ call.data \/ call.verb = "GET" => call.mime = Null
    /\ call.mime # Null => call.mime = Obj("mime", call.n) /\ call.mime \in heap

\* The list option is the list of the call or what an earlier post left there.
FreedList == easy.HTTPHEADER[1] = "POST" /\ easy.HTTPHEADER \notin heap

\* What the options of an open handle say at each point of a call.
OptionInv ==
  curl_handle = "open" =>
    /\ where = "idle" => easy.HTTPHEADER = Null \/ FreedList
    /\ InCall => IF call.left = call.head THEN easy.HTTPHEADER = Null \/ FreedList
                 ELSE easy.HTTPHEADER = call.slist
    /\ where = "head" => easy.method = call.verb
    /\ where \in {"perform", "receive", "free"} =>
         /\ call.verb = "GET" => easy.method = "GET"
         /\ call.verb = "POST" /\ call.data =>
              easy.method = "POST" /\ easy.POSTFIELDS = Obj("data", call.n)
         /\ call.verb = "POST" /\ ~call.data =>
              easy.method = "MIME" /\ easy.MIMEPOST = call.mime

\* What exists besides the objects of the call is a list that was cut.
HeapInv ==
  \A x \in heap :
    \/ x[1] = "POST" /\ "append" \in CurlFaults
    \/ InCall /\ x # Null /\ x \in {call.slist, call.mime}
    \/ InCall /\ call.data /\ x = Obj("data", call.n)

CurlInv ==
  /\ OwnOnly /\ StaleListOnly /\ CurlNoLeak
  /\ CurlRecords /\ HandleInv /\ CallInv /\ OptionInv /\ HeapInv
  /\ where = "init" => heap = {} /\ buff = <<>> /\ easy.HTTPHEADER = Null

\* The objects and the null pointer are told apart by their kinds.
LEMMA ObjType ==
  /\ Null \in CurlObject
  /\ \A kind \in {"GET", "POST", "mime", "data"}, n \in Nat :
       Obj(kind, n) \in CurlObject /\ Obj(kind, n)[1] = kind /\ Obj(kind, n) # Null
BY DEF CurlObject, Obj, Null

\* The invariant holds initially.
LEMMA CurlInitial == CurlInit => CurlInv
<1> SUFFICES ASSUME CurlInit PROVE CurlInv
  OBVIOUS
<1> USE DEF CurlInit
<1>1. CurlRecords
  BY DEF CurlRecords, CallRecord, EasyRecord, NoCall, CurlObject, Null
<1>2. CurlTypeOK
  <2>1. curl_handle \in {"null", "open", "cleaned"} /\ stale \in BOOLEAN
    OBVIOUS
  <2>2. /\ DOMAIN easy = {"method", "HTTPHEADER", "MIMEPOST", "POSTFIELDS"}
        /\ easy.method \in {"GET", "POST", "MIME"}
    OBVIOUS
  <2>3. call.n \in 0..MaxRequests /\ call.verb \in {"none", "GET", "POST"}
    BY CurlAssumption DEF NoCall
  <2>4. call.left \in 0..call.head /\ call.lines \subseteq 1..call.head /\ call.code \in {-1, 0}
    BY DEF NoCall
  <2>5. buff \in Seq(1..MaxRequests) /\ Len(buff) <= MaxPieces
    BY CurlAssumption
  <2> QED
    BY <2>1, <2>2, <2>3, <2>4, <2>5 DEF CurlTypeOK
<1>3. OwnOnly /\ StaleListOnly /\ CurlNoLeak
  BY <1>2 DEF OwnOnly, StaleListOnly, CurlNoLeak
<1>4. HandleInv /\ CallInv /\ OptionInv /\ HeapInv
  BY DEF HandleInv, CallInv, OptionInv, HeapInv, InCall
<1> QED
  BY <1>1, <1>2, <1>3, <1>4 DEF CurlInv

\* init: the handle is opened or not.
LEMMA StartNext ==
  ASSUME CurlInv, CurlStart
  PROVE  CurlInv'
<1> USE DEF CurlInv, CurlStart, Here
<1>1. CurlTypeOK' /\ CurlRecords'
  BY DEF OwnOnly, CurlTypeOK, CurlRecords
<1>2. OwnOnly' /\ StaleListOnly' /\ CurlNoLeak'
  BY <1>1 DEF OwnOnly, StaleListOnly, CurlNoLeak
<1>3. HandleInv' /\ CallInv' /\ HeapInv'
  BY DEF HandleInv, CallInv, HeapInv, InCall
<1>4. OptionInv'
  BY DEF OptionInv, InCall, FreedList
<1> QED
  BY <1>1, <1>2, <1>3, <1>4

\* url_post begins: what an earlier post left as the list option stays.
LEMMA PostNext ==
  ASSUME CurlInv, NEW head \in 0..2, NEW data \in BOOLEAN, UrlPost(head, data)
  PROVE  CurlInv'
<1> USE DEF CurlInv, UrlPost, Here, Setopt
<1>1. CurlTypeOK /\ CurlRecords /\ call.n \in Nat /\ ~stale
  BY DEF OwnOnly, CurlRecords, CallRecord
<1>2. CurlRecords'
  <2>1. call' \in CallRecord
    <3>1. call' = [n |-> call.n + 1, verb |-> "POST", head |-> head, left |-> head,
                   data |-> data, slist |-> Null, lines |-> {}, cut |-> FALSE, mime |-> Null, code |-> 0]
      BY DEF NoCall
    <3> HIDE DEF CurlInv, UrlPost, UrlGet
    <3> QED
      BY <1>1, <3>1, ObjType DEF CallRecord
  <2>2. easy' \in EasyRecord
    BY <1>1 DEF CurlRecords, EasyRecord
  <2> QED
    BY <2>1, <2>2 DEF CurlRecords
<1>3. /\ call'.n = call.n + 1 /\ call'.verb = "POST" /\ call'.head = head /\ call'.left = head
      /\ call'.data = data /\ call'.slist = Null /\ call'.lines = {} /\ call'.cut = FALSE
      /\ call'.mime = Null /\ call'.code = 0
  BY <1>1 DEF NoCall
<1>4. easy'.HTTPHEADER = easy.HTTPHEADER /\ (curl_handle = "open" => easy'.method = "POST")
      /\ easy'.method \in {"GET", "POST", "MIME"} /\ DOMAIN easy' = DOMAIN easy
  BY <1>1 DEF CurlRecords, EasyRecord
<1>5. \A x \in heap' : x \in heap \/ (data /\ x = Obj("data", call.n + 1))
  OBVIOUS
<1>6. /\ where' = "head" /\ where = "idle" /\ buff' = <<>> /\ stale' = stale
      /\ curl_handle' = curl_handle /\ heap \subseteq heap' /\ call.n < MaxRequests
      /\ data => Obj("data", call.n + 1) \in heap'
  BY <1>1
<1> HIDE DEF UrlPost, Setopt
<1>7. CurlTypeOK'
  <2>1. \A x \in heap' : x[1] \in {"GET", "POST", "mime", "data"}
    BY <1>6, <1>1, <1>5 DEF CurlTypeOK, Obj
  <2>2. (call.n \in 0..MaxRequests /\ call.left \in 0..call.head)'
        /\ (call.lines \subseteq 1..call.head)'
    BY <1>6, <1>1, <1>3, CurlAssumption DEF CurlTypeOK
  <2>3. (buff \in Seq(1..MaxRequests) /\ Len(buff) <= MaxPieces)'
    BY <1>6, CurlAssumption
  <2> QED
    BY <1>6, <1>1, <1>3, <1>4, <2>1, <2>2, <2>3 DEF CurlTypeOK
<1>8. OwnOnly' /\ StaleListOnly' /\ CurlNoLeak'
  BY <1>6, <1>1, <1>7 DEF OwnOnly, StaleListOnly, CurlNoLeak
<1>9. HandleInv' /\ CallInv'
  BY <1>6, <1>1, <1>3, <1>4 DEF HandleInv, CallInv, InCall, Obj
<1>10. FreedList => FreedList'
  BY <1>6, <1>4, <1>5 DEF FreedList, Obj
<1>11. OptionInv'
  BY <1>6, <1>3, <1>4, <1>10 DEF OptionInv, InCall
<1>12. HeapInv'
  <2>1. Obj("data", call.n + 1) # Null
    BY DEF Obj, Null
  <2> QED
    BY <1>6, <1>3, <1>5, <2>1 DEF HeapInv, InCall
<1> QED
  BY <1>6, <1>2, <1>7, <1>8, <1>9, <1>11, <1>12

\* url_get begins.
LEMMA GetNext ==
  ASSUME CurlInv, UrlGet
  PROVE  CurlInv'
<1> USE DEF CurlInv, UrlGet, Here, Setopt
<1>1. CurlTypeOK /\ CurlRecords /\ call.n \in Nat /\ ~stale
  BY DEF OwnOnly, CurlRecords, CallRecord
<1>2. CurlRecords'
  <2>1. call' \in CallRecord
    <3>1. call' = [n |-> call.n + 1, verb |-> "GET", head |-> 1, left |-> 1, data |-> FALSE,
                   slist |-> Null, lines |-> {}, cut |-> FALSE, mime |-> Null, code |-> 0]
      BY DEF NoCall
    <3> HIDE DEF CurlInv, UrlPost, UrlGet
    <3> QED
      BY <1>1, <3>1, ObjType DEF CallRecord
  <2>2. easy' \in EasyRecord
    BY <1>1 DEF CurlRecords, EasyRecord
  <2> QED
    BY <2>1, <2>2 DEF CurlRecords
<1>3. /\ call'.n = call.n + 1 /\ call'.verb = "GET" /\ call'.head = 1 /\ call'.left = 1
      /\ call'.data = FALSE /\ call'.slist = Null /\ call'.lines = {} /\ call'.cut = FALSE
      /\ call'.mime = Null /\ call'.code = 0
  BY <1>1 DEF NoCall
<1>4. easy'.HTTPHEADER = easy.HTTPHEADER /\ (curl_handle = "open" => easy'.method = "GET")
      /\ easy'.method \in {"GET", "POST", "MIME"} /\ DOMAIN easy' = DOMAIN easy
  BY <1>1 DEF CurlRecords, EasyRecord
<1>5. CurlTypeOK'
  <2>1. (call.n \in 0..MaxRequests /\ call.left \in 0..call.head)'
        /\ (call.lines \subseteq 1..call.head)'
    BY <1>1, <1>3, CurlAssumption DEF CurlTypeOK
  <2>2. (buff \in Seq(1..MaxRequests) /\ Len(buff) <= MaxPieces)'
    BY CurlAssumption
  <2> QED
    BY <1>1, <1>3, <1>4, <2>1, <2>2 DEF CurlTypeOK
<1>6. OwnOnly' /\ StaleListOnly' /\ CurlNoLeak'
  BY <1>1, <1>5 DEF OwnOnly, StaleListOnly, CurlNoLeak
<1>7. HandleInv' /\ CallInv'
  BY <1>1, <1>3, <1>4 DEF HandleInv, CallInv, InCall, Obj
<1>8. FreedList => FreedList'
  BY <1>4 DEF FreedList
<1>9. OptionInv'
  BY <1>3, <1>4, <1>8 DEF OptionInv, InCall
<1>10. HeapInv'
  BY DEF HeapInv, InCall
<1> QED
  BY <1>2, <1>5, <1>6, <1>7, <1>9, <1>10

\* A header line is appended, or the list is lost.
LEMMA AppendNext ==
  ASSUME CurlInv, AppendHeader
  PROVE  CurlInv'
<1> USE CurlAssumption DEF AppendHeader
<1>1. CurlTypeOK /\ CurlRecords /\ ~stale
  BY DEF CurlInv, OwnOnly, Here
<1> DEFINE slist == IF call.slist = Null THEN Obj(call.verb, 10 * call.n + call.left)
                    ELSE call.slist
<1>2. call.left - 1 \in Nat /\ 10 * call.n + call.left \in Nat
  BY <1>1 DEF CurlTypeOK, CurlRecords, CallRecord
<1>3. slist \in CurlObject /\ slist[1] = call.verb /\ slist # Null
        /\ (call.slist # Null => slist = call.slist)
  <2>1. call.verb \in {"GET", "POST"}
    BY <1>1 DEF CurlInv, CallInv, CurlRecords, CallRecord, InCall, Here
  <2> QED
    BY <2>1, <1>2, <1>1
       DEF CurlObject, Obj, Null, CurlInv, CallInv, InCall, Here, CurlRecords,
           CallRecord
<1>4. Null \in CurlObject
  BY DEF CurlObject, Null
<1>5. call.lines \cup {call.left} \in SUBSET Nat /\ call.left \in Nat
  BY <1>1 DEF CurlRecords, CallRecord
<1>6. CASE
            /\ heap' = heap \cup {slist}
            /\ call' = [call EXCEPT !.left = @ - 1, !.slist = slist,
                                    !.lines = @ \cup {call.left}]
            /\ Setopt([easy EXCEPT !.HTTPHEADER = slist])
  <2>1. CurlRecords'
    BY <1>6, <1>1, <1>2, <1>3, <1>4, <1>5
       DEF CurlRecords, CallRecord, EasyRecord, Setopt
  <2>2. /\ call'.left = call.left - 1 /\ call'.slist = slist
        /\ call'.lines = call.lines \cup {call.left}
        /\ call'.n = call.n /\ call'.verb = call.verb /\ call'.head = call.head
        /\ call'.data = call.data
        /\ call'.cut = call.cut /\ call'.mime = call.mime /\ call'.code = call.code
    BY <1>6, <1>1 DEF CurlRecords, CallRecord
  <2>3. /\ easy'.method = easy.method /\ easy'.MIMEPOST = easy.MIMEPOST
        /\ easy'.POSTFIELDS = easy.POSTFIELDS
        /\ curl_handle = "open" => easy'.HTTPHEADER = slist
    BY <1>6, <1>1 DEF CurlRecords, EasyRecord, Setopt
  <2>4. DOMAIN easy' = DOMAIN easy
    BY <1>6, <1>1 DEF CurlRecords, EasyRecord, Setopt
  <2> HIDE DEF slist
  <2>5. CurlTypeOK'
    <3>1. call'.left \in 0..call'.head /\ call'.lines \subseteq 1..call'.head
      BY <2>2, <1>1 DEF CurlTypeOK, CurlRecords, CallRecord
    <3>2. \A x \in heap' : x[1] \in {"GET", "POST", "mime", "data"}
      BY <1>6, <1>1, <1>3, <2>1
         DEF CurlTypeOK, CurlInv, CallInv, CurlRecords, CallRecord, InCall, Here
    <3> QED
      BY <3>1, <3>2, <2>1, <2>2, <2>3, <2>4, <1>1 DEF CurlTypeOK
  <2>6. OwnOnly' /\ StaleListOnly' /\ CurlNoLeak'
    BY <2>5, <2>2, <2>3, <1>6, <1>1
       DEF OwnOnly, StaleListOnly, CurlNoLeak, CurlInv, Here
  <2>7. HandleInv' /\ CallInv'
    BY <2>5, <2>2, <2>3, <1>6, <1>1, <1>3, <1>2
       DEF HandleInv, CallInv, CurlInv, Here, InCall, CurlRecords, CallRecord,
           CurlTypeOK
  <2>8. OptionInv'
    BY <2>5, <2>2, <2>3, <1>6, <1>1, <1>3, <1>2
       DEF OptionInv, CurlInv, Here, InCall, CurlRecords, CallRecord, CurlTypeOK
  <2>9. HeapInv'
    BY <2>5, <2>2, <2>3, <1>6, <1>1, <1>3, <1>2
       DEF HeapInv, CurlInv, CallInv, Here, InCall, CurlRecords, CallRecord, CurlTypeOK
  <2> QED
    BY <2>1, <2>5, <2>6, <2>7, <2>8, <2>9 DEF CurlInv, Here
<1>7. CASE
            /\ "append" \in CurlFaults /\ UNCHANGED heap
            /\ call' = [call EXCEPT !.left = @ - 1, !.slist = Null, !.lines = {}, !.cut = TRUE]
            /\ Setopt([easy EXCEPT !.HTTPHEADER = Null])
  <2>1. CurlRecords'
    BY <1>7, <1>1, <1>2, <1>4 DEF CurlRecords, CallRecord, EasyRecord, Setopt
  <2>2. /\ call'.left = call.left - 1 /\ call'.slist = Null /\ call'.lines = {}
        /\ call'.n = call.n /\ call'.verb = call.verb /\ call'.head = call.head
        /\ call'.data = call.data
        /\ call'.cut = TRUE /\ call'.mime = call.mime /\ call'.code = call.code
    BY <1>7, <1>1 DEF CurlRecords, CallRecord
  <2>3. /\ easy'.method = easy.method /\ easy'.MIMEPOST = easy.MIMEPOST
        /\ easy'.POSTFIELDS = easy.POSTFIELDS
        /\ curl_handle = "open" => easy'.HTTPHEADER = Null
    BY <1>7, <1>1 DEF CurlRecords, EasyRecord, Setopt
  <2>4. DOMAIN easy' = DOMAIN easy
    BY <1>7, <1>1 DEF CurlRecords, EasyRecord, Setopt
  <2>5. CurlTypeOK'
    <3>1. call'.left \in 0..call'.head /\ call'.lines \subseteq 1..call'.head
      BY <2>2, <1>1 DEF CurlTypeOK, CurlRecords, CallRecord
    <3> QED
      BY <1>7, <3>1, <2>1, <2>2, <2>3, <2>4, <1>1 DEF CurlTypeOK
  <2>6. OwnOnly' /\ StaleListOnly' /\ CurlNoLeak'
    BY <2>5, <2>2, <2>3, <1>7, <1>1
       DEF OwnOnly, StaleListOnly, CurlNoLeak, CurlInv, Here
  <2>7. HandleInv' /\ CallInv'
    BY <2>5, <2>2, <2>3, <1>7, <1>1, <1>2
       DEF HandleInv, CallInv, CurlInv, Here, InCall, CurlRecords, CallRecord,
           CurlTypeOK
  <2>8. OptionInv'
    BY <2>5, <2>2, <2>3, <1>7, <1>1, <1>2
       DEF OptionInv, CurlInv, Here, InCall, CurlRecords, CallRecord, CurlTypeOK
  <2>9. HeapInv'
    <3>1. call.slist # Null => call.slist[1] = "POST"
      BY <1>2, <1>1
         DEF CurlInv, CallInv, InCall, CurlTypeOK, CurlRecords, CallRecord, Here
    <3> QED
      BY <3>1, <2>5, <2>2, <2>3, <1>7, <1>1, <1>2
         DEF HeapInv, CurlInv, CallInv, Here, InCall, CurlRecords, CallRecord,
             CurlTypeOK
  <2> QED
    BY <2>1, <2>5, <2>6, <2>7, <2>8, <2>9, <1>7 DEF CurlInv, Here
<1> HIDE DEF AppendHeader
<1> QED
  BY <1>6, <1>7 DEF AppendHeader

\* The body of a post becomes an option.
LEMMA BodyNext ==
  ASSUME CurlInv, SetBody
  PROVE  CurlInv'
<1> USE DEF CurlInv, SetBody, Here, Setopt
<1>1. /\ CurlTypeOK /\ CurlRecords /\ ~stale
      /\ call.n \in Nat /\ call.n > 0 /\ call.verb \in {"GET", "POST"}
  BY DEF OwnOnly, CurlRecords, CallRecord, CallInv, InCall
<1>2. PICK mime \in {Null, Obj("mime", call.n)} :
       /\ call' = [call EXCEPT !.mime = mime]
       /\ heap' = heap \cup ({mime} \ {Null})
       /\ mime # Null => call.verb = "POST" /\ ~call.data
       /\ call.verb = "POST" /\ ~call.data =>
            Setopt([easy EXCEPT !.method = "MIME", !.MIMEPOST = mime])
  <2>1. CASE call.verb = "POST" /\ ~call.data
    BY <2>1
  <2>2. CASE call.verb = "GET" \/ call.data
    <3>1. call.mime = Null
      BY <2>2 DEF CallInv, InCall
    <3> QED
      BY <2>2, <3>1, <1>1 DEF CurlRecords, CallRecord
  <2> QED
    BY <2>1, <2>2, <1>1
<1>3. /\ call'.n = call.n /\ call'.verb = call.verb /\ call'.head = call.head /\ call'.left = 0
      /\ call'.data = call.data /\ call'.slist = call.slist /\ call'.lines = call.lines
      /\ call'.cut = call.cut /\ call'.code = call.code /\ call.left = 0 /\ call'.mime = mime
  BY <1>1, <1>2 DEF CurlRecords, CallRecord
<1>4. /\ easy' \in EasyRecord /\ easy'.HTTPHEADER = easy.HTTPHEADER
      /\ easy'.method \in {"GET", "POST", "MIME"} /\ DOMAIN easy' = DOMAIN easy
  <2>1. {Obj("data", call.n), Obj("mime", call.n), Null} \subseteq CurlObject
    BY <1>1, ObjType
  <2>2. CASE call.verb = "GET"
    BY <2>2, <1>1 DEF CurlRecords, EasyRecord
  <2>3. CASE call.verb = "POST" /\ call.data
    BY <2>1, <2>3, <1>1 DEF CurlRecords, EasyRecord
  <2>4. CASE call.verb = "POST" /\ ~call.data
    BY <2>1, <2>4, <1>1 DEF CurlRecords, EasyRecord
  <2> QED
    BY <2>2, <2>3, <2>4, <1>1
<1>5. curl_handle = "open" =>
         /\ call.verb = "GET" => easy'.method = "GET"
         /\ call.verb = "POST" /\ call.data =>
              easy'.method = "POST" /\ easy'.POSTFIELDS = Obj("data", call.n)
         /\ call.verb = "POST" /\ ~call.data =>
              easy'.method = "MIME" /\ easy'.MIMEPOST = call'.mime
  <2>1. CASE call.verb = "GET"
    BY <2>1, <1>1 DEF OptionInv
  <2>2. CASE call.verb = "POST" /\ call.data
    BY <2>2, <1>1 DEF CurlRecords, EasyRecord
  <2>3. CASE call.verb = "POST" /\ ~call.data
    <3>1. curl_handle = "open" => easy' = [easy EXCEPT !.method = "MIME", !.MIMEPOST = mime]
      BY <1>2, <2>3
    <3> HIDE DEF SetBody, CurlInv
    <3> QED
      BY <2>3, <3>1, <1>1, <1>3 DEF CurlRecords, EasyRecord
  <2> QED
    BY <2>1, <2>2, <2>3, <1>1
<1>6. /\ where' = "perform" /\ where = "head" /\ buff' = buff
      /\ stale' = stale /\ curl_handle' = curl_handle
  OBVIOUS
<1> HIDE DEF SetBody, Setopt
<1>7. CurlTypeOK'
  <2>1. \A x \in heap' : x[1] \in {"GET", "POST", "mime", "data"}
    BY <1>1, <1>2, ObjType DEF CurlTypeOK
  <2>2. (call.n \in 0..MaxRequests /\ call.left \in 0..call.head)'
        /\ (call.lines \subseteq 1..call.head)'
    BY <1>1, <1>3, CurlAssumption DEF CurlTypeOK
  <2> QED
    BY <1>1, <1>3, <1>4, <1>6, <2>1, <2>2 DEF CurlTypeOK
<1>8. CurlRecords'
  BY <1>1, <1>2, <1>4, ObjType DEF CurlRecords, CallRecord
<1>9. OwnOnly' /\ StaleListOnly' /\ CurlNoLeak'
  BY <1>1, <1>3, <1>7, <1>6 DEF OwnOnly, StaleListOnly, CurlNoLeak
<1>10. HandleInv' /\ CallInv'
  BY <1>1, <1>2, <1>3, <1>6 DEF HandleInv, CallInv, InCall
<1>11. FreedList => FreedList'
  BY <1>1, <1>2, <1>4, ObjType DEF FreedList
<1>12. OptionInv'
  BY <1>3, <1>4, <1>11, <1>5, <1>6 DEF OptionInv, InCall
<1>13. HeapInv'
  <2>1. call.mime = Null \/ call.mime = call'.mime
    BY <1>2, <1>3, <1>6 DEF CallInv, InCall
  <2> QED
    BY <1>2, <1>3, <1>6, <2>1 DEF HeapInv, InCall, CallInv
<1> QED
  BY <1>7, <1>8, <1>9, <1>10, <1>12, <1>13, <1>6

\* The request sent is the call's own, or a freed list is used by a post without
\* header lines.
LEMMA PerformNext ==
  ASSUME CurlInv, Perform
  PROVE  CurlInv'
<1> USE DEF CurlInv, Perform, Here
<1>1. CurlRecords'
  BY DEF CurlRecords, CallRecord
<1>2. /\ call'.left = call.left /\ call'.slist = call.slist /\ call'.lines = call.lines 
        /\ call'.n = call.n /\ call'.verb = call.verb /\ call'.head = call.head
        /\ call'.data = call.data
        /\ call'.cut = call.cut /\ call'.mime = call.mime /\ call'.code \in {-1, 0}
  BY DEF CurlRecords, CallRecord, OwnOnly, CurlTypeOK
<1>3. CurlTypeOK'
  BY <1>2 DEF OwnOnly, CurlTypeOK
<1>4. ASSUME curl_handle = "open"
      PROVE  OwnOnly' /\ StaleListOnly'
  <2>1. stale' <=> ~(Used(easy) \subseteq heap)
    BY <1>4
  <2>2. call.left = 0 /\ ~stale
    BY DEF CallInv, InCall
  <2>3. Body(easy) = IF call.verb = "GET" THEN Null
                     ELSE IF call.data THEN Obj("data", call.n) ELSE call.mime
    BY <1>4 DEF Body, OptionInv, CallInv, InCall, OwnOnly, CurlTypeOK
  <2>4. Body(easy) # Null => Body(easy) \in heap /\ Body(easy)[1] # "POST"
    BY <2>3 DEF CallInv, InCall, Obj
  <2>5. \/ easy.HTTPHEADER = call.slist /\ (call.slist # Null => call.slist \in heap)
        \/ call.head = 0 /\ FreedList /\ easy.HTTPHEADER # Null /\ call.verb = "POST"
    BY <2>2, <1>4 DEF OptionInv, CallInv, InCall, FreedList, OwnOnly, CurlTypeOK, Null
  <2>6. stale' => call.head = 0 /\ FreedList /\ call.verb = "POST"
    BY <2>1, <2>4, <2>5 DEF Used
  <2>7. StaleListOnly'
    BY <2>6, <2>4, <1>4, <1>2 DEF StaleListOnly, FreedList, Used
  <2>8. ~stale' => sent'.headers = call.lines
    BY <1>4, <2>1, <2>5 DEF FreedList, Used
  <2>9. OwnOnly'
    BY <1>4, <1>2, <2>2, <2>3, <2>8, <1>3
       DEF OwnOnly, OptionInv, CallInv, InCall, CurlTypeOK
  <2> QED
    BY <2>7, <2>9
<1>5. ASSUME curl_handle # "open"
      PROVE  OwnOnly' /\ StaleListOnly'
  BY <1>2, <1>3, <1>5 DEF OwnOnly, StaleListOnly
<1>6. OwnOnly' /\ StaleListOnly'
  BY <1>4, <1>5
<1>7. CurlNoLeak'
  BY <1>2, <1>3 DEF OwnOnly, CurlNoLeak
<1>8. HandleInv' /\ CallInv' /\ HeapInv'
  BY <1>2 DEF HandleInv, CallInv, HeapInv, InCall
<1>9. OptionInv'
  BY <1>2 DEF OptionInv, InCall, FreedList
<1> QED
  BY <1>1, <1>3, <1>7, <1>8, <1>9, <1>6

\* A piece of the response is appended.
LEMMA ReceiveNext ==
  ASSUME CurlInv, receive_data
  PROVE  CurlInv'
<1> USE DEF CurlInv, receive_data, Here
<1>1. /\ buff' \in Seq(1..MaxRequests) /\ Len(buff') <= MaxPieces
      /\ \A i \in 1..Len(buff') : buff'[i] = call.n
  BY AppendProperties, CurlAssumption
     DEF OwnOnly, CurlTypeOK, CallInv, InCall, CurlRecords, CallRecord
<1>2. CurlTypeOK' /\ CurlRecords'
  BY <1>1 DEF OwnOnly, CurlTypeOK, CurlRecords
<1>3. OwnOnly' /\ StaleListOnly' /\ CurlNoLeak'
  BY <1>1, <1>2 DEF OwnOnly, StaleListOnly, CurlNoLeak, HandleInv
<1>4. HandleInv' /\ CallInv' /\ HeapInv'
  BY DEF HandleInv, CallInv, HeapInv, InCall
<1>5. OptionInv'
  BY DEF OptionInv, InCall, FreedList
<1> QED
  BY <1>2, <1>3, <1>4, <1>5

\* The transfer ends.
LEMMA EndsNext ==
  ASSUME CurlInv, PerformEnds
  PROVE  CurlInv'
<1> USE DEF CurlInv, PerformEnds, Here
<1>1. CurlRecords' /\ \E code \in {0, -1} : call' = [call EXCEPT !.code = code]
  BY DEF CurlRecords, CallRecord
<1>2. /\ call'.left = call.left /\ call'.slist = call.slist /\ call'.lines = call.lines 
        /\ call'.n = call.n /\ call'.verb = call.verb /\ call'.head = call.head
        /\ call'.data = call.data
        /\ call'.cut = call.cut /\ call'.mime = call.mime /\ call'.code \in {-1, 0}
  BY <1>1 DEF CurlRecords, CallRecord
<1>3. CurlTypeOK'
  BY <1>2 DEF OwnOnly, CurlTypeOK
<1>4. OwnOnly' /\ StaleListOnly' /\ CurlNoLeak'
  BY <1>2, <1>3 DEF OwnOnly, StaleListOnly, CurlNoLeak
<1>5. HandleInv' /\ CallInv' /\ HeapInv'
  BY <1>2 DEF HandleInv, CallInv, HeapInv, InCall
<1>6. OptionInv'
  BY <1>2 DEF OptionInv, InCall, FreedList
<1> QED
  BY <1>1, <1>3, <1>4, <1>5, <1>6

\* url_post frees its objects; the list it leaves as an option is a freed one.
LEMMA PostReturnNext ==
  ASSUME CurlInv, PostReturn
  PROVE  CurlInv'
<1> USE DEF CurlInv, PostReturn, Here
<1>1. CurlTypeOK /\ CurlRecords /\ ~stale
  BY DEF OwnOnly
<1>2. CurlRecords'
  BY <1>1 DEF CurlRecords, EasyRecord, Null, CurlObject, Unbound
<1>3. easy'.HTTPHEADER = easy.HTTPHEADER 
      /\ easy'.method \in {"GET", "POST", "MIME"} /\ DOMAIN easy' = DOMAIN easy
  BY <1>1 DEF CurlRecords, EasyRecord, Unbound
<1>4. CurlTypeOK'
  BY <1>1, <1>3 DEF CurlTypeOK
<1>5. OwnOnly' /\ StaleListOnly'
  BY <1>1, <1>4 DEF OwnOnly, StaleListOnly
<1>6. HandleInv' /\ CallInv'
  BY <1>1, <1>3 DEF HandleInv, CallInv, InCall
<1>7. FreedList => FreedList'
  BY <1>3 DEF FreedList
<1>8. OptionInv'
  BY <1>3, <1>7, <1>1 DEF OptionInv, InCall, CallInv, FreedList
<1>9. HeapInv'
  BY DEF HeapInv, InCall
<1>10. CurlNoLeak'
  BY DEF HeapInv, InCall, CurlNoLeak
<1> QED
  BY <1>2, <1>4, <1>5, <1>6, <1>8, <1>9, <1>10

\* url_get frees its list and resets the option.
LEMMA GetReturnNext ==
  ASSUME CurlInv, GetReturn
  PROVE  CurlInv'
<1> USE DEF CurlInv, GetReturn, Here, Setopt
<1>1. CurlTypeOK /\ CurlRecords /\ ~stale
  BY DEF OwnOnly
<1>2. CurlRecords'
  BY <1>1 DEF CurlRecords, EasyRecord, Null, CurlObject
<1>3. (curl_handle = "open" => easy'.HTTPHEADER = Null)
      /\ easy'.method \in {"GET", "POST", "MIME"} /\ DOMAIN easy' = DOMAIN easy
  BY <1>1 DEF CurlRecords, EasyRecord
<1>4. CurlTypeOK'
  BY <1>1, <1>3 DEF CurlTypeOK
<1>5. OwnOnly' /\ StaleListOnly'
  BY <1>1, <1>4 DEF OwnOnly, StaleListOnly
<1>6. HandleInv' /\ CallInv'
  BY <1>1, <1>3 DEF HandleInv, CallInv, InCall
<1>7. OptionInv'
  BY <1>3, <1>1 DEF OptionInv, InCall
<1>8. HeapInv' /\ CurlNoLeak'
  <2>1. Obj("data", call.n) \notin heap \/ ("append" \in CurlFaults /\ FALSE)
    BY DEF HeapInv, CallInv, InCall, Obj
  <2> QED
    BY <2>1 DEF HeapInv, InCall, CurlNoLeak, CallInv
<1> QED
  BY <1>2, <1>4, <1>5, <1>6, <1>7, <1>8

\* The destructor.
LEMMA DestroyNext ==
  ASSUME CurlInv, CurlDestroy
  PROVE  CurlInv'
<1> USE DEF CurlInv, CurlDestroy, Here
<1>1. CurlTypeOK' /\ CurlRecords'
  BY DEF OwnOnly, CurlTypeOK, CurlRecords
<1>2. OwnOnly' /\ StaleListOnly' /\ CurlNoLeak'
  BY <1>1 DEF OwnOnly, StaleListOnly, CurlNoLeak
<1>3. HandleInv' /\ CallInv' /\ HeapInv'
  BY DEF HandleInv, CallInv, HeapInv, InCall
<1>4. OptionInv'
  BY DEF OptionInv, InCall, FreedList
<1> QED
  BY <1>1, <1>2, <1>3, <1>4

\* The pointers that libcurl keeps, the objects and the locals of the call agree
\* at every point of url_post and url_get, until a freed list is used.
THEOREM CurlInvCorrect == CurlSpec => []CurlInv
<1>1. ASSUME CurlInv, [CurlNext]_curlVars
      PROVE  CurlInv'
  <2>1. CASE CurlStart
    BY <1>1, <2>1, StartNext
  <2>2. ASSUME NEW head \in 0..2, NEW data \in BOOLEAN, UrlPost(head, data)
        PROVE  CurlInv'
    BY <1>1, <2>2, PostNext
  <2>3. CASE UrlGet
    BY <1>1, <2>3, GetNext
  <2>4. CASE AppendHeader
    BY <1>1, <2>4, AppendNext
  <2>5. CASE SetBody
    BY <1>1, <2>5, BodyNext
  <2>6. CASE Perform
    BY <1>1, <2>6, PerformNext
  <2>7. CASE receive_data
    BY <1>1, <2>7, ReceiveNext
  <2>8. CASE PerformEnds
    BY <1>1, <2>8, EndsNext
  <2>9. CASE PostReturn
    BY <1>1, <2>9, PostReturnNext
  <2>10. CASE GetReturn
    BY <1>1, <2>10, GetReturnNext
  <2>11. CASE CurlDestroy
    BY <1>1, <2>11, DestroyNext
  <2>12. CASE UNCHANGED curlVars
    BY <1>1, <2>12
       DEF curlVars, CurlInv, OwnOnly, StaleListOnly, CurlNoLeak, CurlTypeOK,
           CurlRecords, HandleInv, CallInv, OptionInv, HeapInv, InCall, FreedList
  <2> QED
    BY <1>1, <2>1, <2>2, <2>3, <2>4, <2>5, <2>6, <2>7, <2>8, <2>9, <2>10, <2>11, <2>12
       DEF CurlNext
<1> QED
  BY CurlInitial, <1>1, PTL DEF CurlSpec

\* A request is the one its call asked for and buff holds the response to it.
THEOREM RequestsOwn == CurlSpec => []OwnOnly
<1>1. CurlInv => OwnOnly
  BY DEF CurlInv
<1> QED
  BY CurlInvCorrect, <1>1, PTL

\* Of the objects libcurl keeps, only a header list is ever used after it was freed,
\* and only by a post without header lines.
THEOREM OnlyListsStale == CurlSpec => []StaleListOnly
<1>1. CurlInv => StaleListOnly
  BY DEF CurlInv
<1> QED
  BY CurlInvCorrect, <1>1, PTL

\* Between calls nothing is left but what a failing curl_slist_append lost.
THEOREM RequestsFree == CurlSpec => []CurlNoLeak
<1>1. CurlInv => CurlNoLeak
  BY DEF CurlInv
<1> QED
  BY CurlInvCorrect, <1>1, PTL

-----------------------------------------------------------------------------
(* The network tools                                                       *)

Working == np \notin {"debug_init", "main", "exit"}

\* Which program and which function make which call.
CallerInv ==
  /\ prog \in {"010", "012", "013"} /\ little \in BOOLEAN
  /\ prog = "013" <=> fun = "main"
  /\ prog = "013" => np \in {"socket", "sendto", "main", "exit"} /\ told = 0 /\ kept = 0
  /\ prog = "012" => fun \in {"none", "router_solicitation"}
  /\ prog = "010" => fun \in Library \cup {"none"}
  /\ np = "debug_init" => told = 0
  /\ np \in {"inet_pton", "connect", "getsockname"} => fun = "get_sockaddr"
  /\ np = "socket" => fun \in {"get_sockaddr", "router_solicitation", "main"}
  /\ np = "sendto" => fun \in {"router_solicitation", "main"}
  /\ np = "getifaddrs" => fun = "get_ifaddr"
  /\ np = "if_nameindex" => fun = "if_nameindex_demo"
  /\ np = "getaddrinfo" => fun = "addrinfo"
  /\ np = "gethostbyname" => fun = "addrinfo_obsolete"
  /\ np = "entry" => fun \in {"get_ifaddr", "if_nameindex_demo", "addrinfo"}

\* A list is held in a loop over it only; 013 has a socket until it has sent.
ResourceInv ==
  /\ held \subseteq IF np = "entry" THEN {List} ELSE {}
  /\ sockets = kept + IF prog = "013" /\ np = "sendto" THEN 1 ELSE 0
  /\ "EMFILE" \in trouble => kept = FdMax

\* The calls whose failure a function does not report.
Unreported ==
  {"inet_pton", "getaddrinfo", "sendto"} \cup {x \in {"getnameinfo"} : fun = "addrinfo"}

\* A function that goes on has met no failure that it reports.
TroubleInv ==
  told > 0 => IF Working THEN trouble \subseteq Unreported
              ELSE net_ret < 0 <=> trouble \ Unreported # {}

NetInv ==
  /\ NetTypeOK
  /\ CallerInv /\ ResourceInv /\ TroubleInv
  /\ wire \in {<<>>, Bytes(Rtp)}

\* The call each function begins with, and the list it obtains.
LEMMA Callers ==
  /\ FirstCall("get_sockaddr") = "inet_pton"
  /\ FirstCall("get_ifaddr") = "getifaddrs"
  /\ FirstCall("if_nameindex_demo") = "if_nameindex"
  /\ FirstCall("addrinfo") = "getaddrinfo"
  /\ FirstCall("addrinfo_obsolete") = "gethostbyname"
  /\ fun = "get_ifaddr" => List = "getifaddrs"
  /\ fun = "if_nameindex_demo" => List = "if_nameindex"
  /\ fun = "addrinfo" => List = "getaddrinfo"
BY DEF FirstCall, List

\* The invariant holds initially.
LEMMA NetInitial == NetInit => NetInv
<1> SUFFICES ASSUME NetInit PROVE NetInv
  OBVIOUS
<1> USE DEF NetInit
<1>1. NetTypeOK
  <2>1. np \in NetSys \cup {"debug_init", "main", "entry", "exit"}
    BY DEF NetSys
  <2>2. /\ entries \in 0..MaxEntries /\ sockets \in 0..FdMax
        /\ kept \in 0..FdMax /\ told \in 0..MaxNetCalls
    BY NetAssumption
  <2> QED
    BY <2>1, <2>2 DEF NetTypeOK
<1>2. CallerInv
  BY DEF CallerInv, Library
<1>3. ResourceInv /\ TroubleInv
  BY DEF ResourceInv, TroubleInv
<1> QED
  BY <1>1, <1>2, <1>3 DEF NetInv

\* Which actions touch what outlives a call.
LEMMA NetFrame ==
  ASSUME NetNext
  PROVE  /\ UNCHANGED <<prog, little>>
         /\ UNCHANGED told \/ RouterSolicitation \/ \E f \in Library : NetCall(f)
         /\ UNCHANGED <<sockets, kept>> \/ Socket \/ send_udp_data
         /\ UNCHANGED wire \/ send_udp_data
         /\ \/ UNCHANGED held
            \/ GetIfaddrs \/ IfNameindex \/ GetAddrinfo \/ IfaddrEntry \/ FreeList
<1> USE DEF NetNext, NetStep, DebugInit, NetCall, RouterSolicitation, InetPton, Socket,
            Connect, Getsockname, send_udp_data, SendSolicitation, GetIfaddrs,
            IfNameindex, GetAddrinfo, IfaddrEntry, NameindexEntry, AddrinfoEntry,
            FreeList, Gethostbyname, NetExit, Sigusr1, NetGo, NetReturn, Begin, Obtain,
            NextEntry, InLoop, netFixed, netSignal
<1>1. UNCHANGED <<prog, little>>
  OBVIOUS
<1>2. UNCHANGED told \/ RouterSolicitation \/ \E f \in Library : NetCall(f)
  OBVIOUS
<1>3. UNCHANGED <<sockets, kept>> \/ Socket \/ send_udp_data
  OBVIOUS
<1>4. UNCHANGED wire \/ send_udp_data
  OBVIOUS
<1>5. \/ UNCHANGED held
      \/ GetIfaddrs \/ IfNameindex \/ GetAddrinfo \/ IfaddrEntry \/ FreeList
  OBVIOUS
<1> QED
  BY <1>1, <1>2, <1>3, <1>4, <1>5

\* Every step preserves the invariant.
LEMMA NetPreserved ==
  ASSUME NetInv, NetNext
  PROVE  NetInv'
<1> USE NetAssumption
        DEF NetNext, NetStep, DebugInit, NetCall, RouterSolicitation, InetPton, Socket,
            Connect, Getsockname, send_udp_data, SendSolicitation, GetIfaddrs,
            IfNameindex, GetAddrinfo, IfaddrEntry, NameindexEntry, AddrinfoEntry,
            FreeList, Gethostbyname, NetExit, Sigusr1, NetAt, NetGo, NetFails,
            NetReturn, Begin, Obtain, NextEntry, InLoop, netFixed, netSignal, NetInv
<1>1. np' \in NetSys \cup {"debug_init", "main", "entry", "exit"}
  BY Callers DEF NetTypeOK, NetSys, Library
<1>2. fun' \in Library \cup {"none", "main", "router_solicitation"}
  BY DEF NetTypeOK
<1>3. entries' \in 0..MaxEntries
  <2>1. UNCHANGED entries \/ entries' = 0 \/ (entries > 0 /\ entries' = entries - 1)
       \/ entries' \in 0..MaxEntries
    OBVIOUS
  <2> QED
    BY <2>1 DEF NetTypeOK
<1>4. held' \subseteq NetSys
  BY DEF NetTypeOK, NetSys
<1>5. sockets' \in 0..FdMax /\ kept' \in 0..FdMax
  <2> HIDE DEF NetNext, NetStep
  <2>1. CASE Socket
    <3>1. sockets = kept /\ sockets \in 0..FdMax
      BY <2>1 DEF NetTypeOK, ResourceInv
    <3> QED
      BY <2>1, <3>1
  <2>2. CASE send_udp_data
    BY <2>2 DEF NetTypeOK, CallerInv, ResourceInv
  <2> QED
    BY <2>1, <2>2, NetFrame DEF NetTypeOK
<1>6. told' \in 0..MaxNetCalls
  <2> HIDE DEF NetNext, NetStep
  <2>1. CASE RouterSolicitation
    BY <2>1 DEF NetTypeOK
  <2>2. CASE \E f \in Library : NetCall(f)
    BY <2>2 DEF NetTypeOK
  <2> QED
    BY <2>1, <2>2, NetFrame DEF NetTypeOK
<1>7. net_ret' \in {-1, 0}
  BY DEF NetTypeOK
<1>8. trouble' \subseteq NetSys \cup {"family", "EMFILE"}
  BY DEF NetTypeOK, NetSys, name_info
<1>9. handler' \in BOOLEAN /\ g_debug_quit' \in BOOLEAN /\ killed' \in BOOLEAN
  BY DEF NetTypeOK
<1>10. CallerInv'
  <2>1. (prog = "013" <=> fun = "main")'
    BY Callers DEF CallerInv, Library
  <2>2. (prog = "013" => np \in {"socket", "sendto", "main", "exit"})'
    BY Callers DEF CallerInv, Library
  <2>3. (prog = "013" => told = 0)'
    BY Callers DEF CallerInv, Library
  <2>4. (prog = "013" => kept = 0)'
    <3> HIDE DEF NetNext, NetStep
    <3>1. CASE Socket
      BY <3>1 DEF CallerInv, NetTypeOK
    <3>2. CASE send_udp_data
      BY <3>2 DEF CallerInv
    <3> QED
      BY <3>1, <3>2, NetFrame DEF CallerInv
  <2>5. (prog = "012" => fun \in {"none", "router_solicitation"})'
    BY Callers DEF CallerInv, Library
  <2>6. (prog = "010" => fun \in Library \cup {"none"})'
    BY Callers DEF CallerInv, Library
  <2>7. (np = "debug_init" => told = 0)'
    BY Callers DEF CallerInv, Library
  <2>8. (np \in {"inet_pton", "connect", "getsockname"} => fun = "get_sockaddr")'
    BY Callers DEF CallerInv, Library
  <2>9. (np = "socket" => fun \in {"get_sockaddr", "router_solicitation", "main"})'
    BY Callers DEF CallerInv, Library
  <2>10. (np = "sendto" => fun \in {"router_solicitation", "main"})'
    BY Callers DEF CallerInv, Library
  <2>11. (np = "getifaddrs" => fun = "get_ifaddr")'
    BY Callers DEF CallerInv, Library
  <2>12. (np = "if_nameindex" => fun = "if_nameindex_demo")'
    BY Callers DEF CallerInv, Library
  <2>13. (np = "getaddrinfo" => fun = "addrinfo")'
    BY Callers DEF CallerInv, Library
  <2>14. (np = "gethostbyname" => fun = "addrinfo_obsolete")'
    BY Callers DEF CallerInv, Library
  <2>15. (np = "entry" => fun \in {"get_ifaddr", "if_nameindex_demo", "addrinfo"})'
    BY Callers DEF CallerInv, Library
  <2> QED
    BY <2>1, <2>2, <2>3, <2>4, <2>5, <2>6, <2>7, <2>8, <2>9, <2>10, <2>11, <2>12, <2>13,
       <2>14, <2>15 DEF CallerInv
<1>11. ResourceInv'
  <2> HIDE DEF NetNext, NetStep
  <2> USE Callers DEF ResourceInv, NetTypeOK, CallerInv
  <2>1. CASE DebugInit
    BY <2>1 DEF List, name_info
  <2>2. CASE RouterSolicitation
    BY <2>2 DEF List, name_info
  <2>3. CASE InetPton
    BY <2>3 DEF List, name_info
  <2>4. CASE Socket
    BY <2>4 DEF List, name_info
  <2>5. CASE Connect
    BY <2>5 DEF List, name_info
  <2>6. CASE Getsockname
    BY <2>6 DEF List, name_info
  <2>7. CASE send_udp_data
    BY <2>7 DEF List, name_info
  <2>8. CASE SendSolicitation
    BY <2>8 DEF List, name_info
  <2>9. CASE GetIfaddrs
    BY <2>9 DEF List, name_info
  <2>10. CASE IfNameindex
    BY <2>10 DEF List, name_info
  <2>11. CASE GetAddrinfo
    BY <2>11 DEF List, name_info
  <2>12. CASE IfaddrEntry
    BY <2>12 DEF List, name_info
  <2>13. CASE NameindexEntry
    BY <2>13 DEF List, name_info
  <2>14. CASE AddrinfoEntry
    BY <2>14 DEF List, name_info
  <2>15. CASE FreeList
    BY <2>15 DEF List, name_info
  <2>16. CASE Gethostbyname
    BY <2>16 DEF List, name_info
  <2>17. CASE NetExit
    BY <2>17 DEF List, name_info
  <2>18. CASE Sigusr1
    BY <2>18 DEF List, name_info
  <2>19. CASE \E f \in Library : NetCall(f)
    BY <2>19 DEF Library, List
  <2> QED
    BY <2>1, <2>2, <2>3, <2>4, <2>5, <2>6, <2>7, <2>8, <2>9, <2>10, <2>11, <2>12, <2>13,
       <2>14, <2>15, <2>16, <2>17, <2>18, <2>19 DEF NetNext, NetStep
<1>12. TroubleInv'
  <2>1. (told > 0 /\ Working => trouble \subseteq Unreported)'
    BY Callers DEF TroubleInv, CallerInv, name_info, NetTypeOK, Working, Unreported
  <2>2. (told > 0 /\ ~Working => (net_ret < 0 <=> trouble \ Unreported # {}))'
    <3> HIDE DEF NetNext, NetStep
    <3> USE DEF TroubleInv, NetTypeOK, CallerInv, Working, Unreported
    <3>1. CASE DebugInit
      BY <3>1 DEF name_info
    <3>2. CASE RouterSolicitation
      BY <3>2 DEF name_info
    <3>3. CASE InetPton
      BY <3>3 DEF name_info
    <3>4. CASE Socket
      BY <3>4 DEF name_info
    <3>5. CASE Connect
      BY <3>5 DEF name_info
    <3>6. CASE Getsockname
      <4>1. Unreported' = Unreported /\ (told' > 0 => trouble \subseteq Unreported)
        BY <3>6
      <4>2. "getsockname" \notin Unreported
        OBVIOUS
      <4>3. \/ net_ret' = 0 /\ trouble' = trouble
            \/ net_ret' = -1 /\ trouble' = trouble \cup {"getsockname"}
        BY <3>6 DEF NetFails, NetReturn
      <4> HIDE DEF Unreported, NetInv, Working
      <4> QED
        BY <4>1, <4>3, <4>2
    <3>7. CASE send_udp_data
      BY <3>7 DEF name_info
    <3>8. CASE SendSolicitation
      <4>1. Unreported' = Unreported /\ (told' > 0 => trouble \subseteq Unreported)
        BY <3>8
      <4>2. "sendto" \in Unreported
        OBVIOUS
      <4>3. net_ret' = 0 /\ (trouble' = trouble \/ trouble' = trouble \cup {"sendto"})
        BY <3>8
      <4> HIDE DEF Unreported, NetInv, Working
      <4> QED
        BY <4>1, <4>3, <4>2
    <3>9. CASE GetIfaddrs
      BY <3>9 DEF name_info
    <3>10. CASE IfNameindex
      BY <3>10 DEF name_info
    <3>11. CASE GetAddrinfo
      BY <3>11 DEF name_info
    <3>12. CASE IfaddrEntry
      BY <3>12 DEF name_info
    <3>13. CASE NameindexEntry
      BY <3>13 DEF name_info
    <3>14. CASE AddrinfoEntry
      BY <3>14 DEF name_info
    <3>15. CASE FreeList
      <4>1. Unreported' = Unreported /\ (told' > 0 => trouble \subseteq Unreported)
        BY <3>15
      <4>2. net_ret' = 0 /\ trouble' = trouble
        BY <3>15
      <4> HIDE DEF Unreported, NetInv, Working
      <4> QED
        BY <4>1, <4>2
    <3>16. CASE Gethostbyname
      <4>1. Unreported' = Unreported /\ (told' > 0 => trouble \subseteq Unreported)
        BY <3>16
      <4>2. "gethostbyname" \notin Unreported
        OBVIOUS
      <4>3. \/ net_ret' = 0 /\ trouble' = trouble
            \/ net_ret' = -1 /\ trouble' = trouble \cup {"gethostbyname"}
        BY <3>16 DEF NetFails, NetReturn
      <4> HIDE DEF Unreported, NetInv, Working
      <4> QED
        BY <4>1, <4>3, <4>2
    <3>17. CASE NetExit
      BY <3>17 DEF name_info
    <3>18. CASE Sigusr1
      BY <3>18 DEF name_info
    <3>19. CASE \E f \in Library : NetCall(f)
      BY <3>19, Callers DEF Library
    <3> QED
      BY <3>1, <3>2, <3>3, <3>4, <3>5, <3>6, <3>7, <3>8, <3>9, <3>10, <3>11, <3>12,
         <3>13, <3>14, <3>15, <3>16, <3>17, <3>18, <3>19 DEF NetNext, NetStep
  <2> QED
    BY <2>1, <2>2 DEF TroubleInv
<1>13. (wire \in {<<>>, Bytes(Rtp)})'
  <2> HIDE DEF NetNext, NetStep
  <2>1. Bytes(Rtp)' = Bytes(Rtp)
    BY NetFrame DEF Bytes, Rtp, Word, Join, htons
  <2> QED
    BY <2>1, NetFrame
<1> HIDE DEF NetInv
<1> QED
  BY <1>1, <1>2, <1>3, <1>4, <1>5, <1>6, <1>7, <1>8, <1>9, <1>10, <1>11, <1>12, <1>13
     DEF NetInv, NetTypeOK

\* The resources, the results and the packet of the three programs are right at
\* every point of every function.
THEOREM NetInvCorrect == NetSpec => []NetInv
<1>1. NetInv /\ UNCHANGED netVars => NetInv'
  BY DEF netVars, NetInv, NetTypeOK, CallerInv, ResourceInv, TroubleInv, List, Working,
         Unreported, Bytes, Rtp, Word, Join, htons
<1> QED
  BY NetInitial, NetPreserved, <1>1, PTL DEF NetSpec

\* No list is leaked, and descriptors run out by the calls that keep a socket only.
THEOREM NetResourcesCorrect == NetSpec => []NetResources
<1>1. NetInv => NetResources
  BY DEF NetInv, ResourceInv, NetResources, Between, NetAt, NetTypeOK
<1> QED
  BY NetInvCorrect, <1>1, PTL

\* Each function reports its failures but those of four calls.
THEOREM NetReportsCorrect == NetSpec => []NetReports
<1>1. NetInv => NetReports
  BY DEF NetInv, TroubleInv, NetReports, Between, NetAt, Working, Unreported
<1> QED
  BY NetInvCorrect, <1>1, PTL

\* Two pairs make a sequence of four.
LEMMA ConcatPairs ==
  ASSUME NEW a \in Nat, NEW b \in Nat, NEW c \in Nat, NEW d \in Nat
  PROVE  <<a, b>> \o <<c, d>> = <<a, b, c, d>>
<1> DEFINE s == <<a, b>>
           t == <<c, d>>
           u == <<a, b, c, d>>
<1>1. s \in Seq(Nat) /\ t \in Seq(Nat) /\ u \in Seq(Nat) 
  OBVIOUS
<1>2. Len(s) = 2 /\ Len(t) = 2 /\ Len(u) = 4
  OBVIOUS
<1>3. s[1] = a /\ s[2] = b /\ t[1] = c /\ t[2] = d
  OBVIOUS
<1>4. u[1] = a /\ u[2] = b /\ u[3] = c /\ u[4] = d
  OBVIOUS
<1> HIDE DEF s, t, u
<1>5. /\ s \o t \in Seq(Nat)
         /\ Len(s \o t) = Len(s) + Len(t)
         /\ \A i \in 1 .. Len(s) + Len(t) : (s \o t)[i] =
                     IF i <= Len(s) THEN s[i] ELSE t[i - Len(s)]
  BY <1>1, ConcatProperties, Zenon
<1>6. \A i \in 1..4 : (s \o t)[i] = IF i <= 2 THEN s[i] ELSE t[i - 2]
  BY <1>2, <1>5
<1>7. \A i \in 1..4 : (s \o t)[i] = u[i]
  <2>1. (s \o t)[1] = s[1] /\ (s \o t)[2] = s[2]
    <3>1. 1 \in 1..4 /\ 1 <= 2 /\ 2 \in 1..4 /\ 2 <= 2
      OBVIOUS
    <3> QED
      BY <1>6, <3>1
  <2>2. (s \o t)[3] = t[1] /\ (s \o t)[4] = t[2]
    <3>1. 3 \in 1..4 /\ ~(3 <= 2) /\ 3 - 2 = 1 /\ 4 \in 1..4 /\ ~(4 <= 2) /\ 4 - 2 = 2
      OBVIOUS
    <3> QED
      BY <1>6, <3>1
  <2>3. \A i \in 1..4 : i = 1 \/ i = 2 \/ i = 3 \/ i = 4
    OBVIOUS
  <2> QED
    BY <2>1, <2>2, <2>3, <1>3, <1>4
<1>8. s \o t = u
  <2>1. Len(s \o t) = Len(u)
    BY <1>2, <1>5
  <2>2. \A i \in 1..Len(s \o t) : (s \o t)[i] = u[i]
    BY <2>1, <1>2, <1>7
  <2> QED
    BY <1>1, <1>5, <2>1, <2>2, SeqEqual, Zenon
<1> QED
  BY <1>8 DEF s, t, u

\* 013 sends the same four bytes on either machine.
LEMMA PacketBytes ==
  ASSUME little \in BOOLEAN
  PROVE  Bytes(Rtp) = <<128, 96, 118, 33>>
<1>1. htons(30241) = IF little THEN 8566 ELSE 30241
  BY DEF htons
<1>2. Word(htons(30241)) = <<118, 33>>
  BY <1>1 DEF Word
<1> DEFINE fields ==
             IF little
               THEN <<Join(<<0, 16>>, Join(<<0, 2>>, Join(<<0, 2>>, <<2, 4>>)))[1],
                      Join(<<96, 128>>, <<0, 2>>)[1]>>
               ELSE <<Join(<<2, 4>>, Join(<<0, 2>>, Join(<<0, 2>>, <<0, 16>>)))[1],
                      Join(<<0, 2>>, <<96, 128>>)[1]>>
<1>3. fields = <<128, 96>>
  <2>1. CASE little
    BY <2>1 DEF Join
  <2>2. CASE ~little
    BY <2>2 DEF Join
  <2> QED
    BY <2>1, <2>2
<1> DEFINE word == Word(htons(30241))
<1>4. Bytes(Rtp) = fields \o word
  BY DEF Bytes, Rtp
<1>5. \A f, w : f = <<128, 96>> /\ w = <<118, 33>> => f \o w = <<128, 96, 118, 33>>
  <2> TAKE f, w
  <2> HAVE f = <<128, 96>> /\ w = <<118, 33>>
  <2>1. <<128, 96>> \o <<118, 33>> = <<128, 96, 118, 33>>
    BY ConcatPairs
  <2> QED
    BY <2>1, Zenon
<1>6. word = <<118, 33>>
  BY <1>2
<1> HIDE DEF fields, word
<1>7. fields \o word = <<128, 96, 118, 33>>
  BY <1>3, <1>5, <1>6
<1> QED
  BY <1>4, <1>7

\* The packet is in network order, and is shown so by the dissectors.
THEOREM PacketCorrect == NetSpec => []RtpOnWire
<1>1. NetInv => RtpOnWire
  <2> SUFFICES ASSUME NetInv, wire # <<>>
               PROVE  RtpOnWire
    BY DEF RtpOnWire
  <2>1. wire = <<128, 96, 118, 33>>
    BY PacketBytes DEF NetInv, CallerInv
  <2>2. dissector(wire) = <<8, 0, 6, 0, 7, 6, 2, 1>>
    BY <2>1 DEF dissector
  <2> QED
    BY <2>1, <2>2 DEF RtpOnWire
<1> QED
  BY NetInvCorrect, <1>1, PTL

-----------------------------------------------------------------------------
(* The file size                                                           *)

-----------------------------------------------------------------------------
(* Recursive functions                                                     *)

\* A set of numbers has a least member.
LEMMA LeastNumber ==
  ASSUME NEW T, T \subseteq Nat, T # {}
  PROVE  \E x \in T : \A y \in T : ~(y < x)
<1>1. PICK x \in T : \A y \in T : <<y, x>> \notin OpToRel(<, Nat)
  BY NatLessThanWellFounded, WFMin
<1>2. \A y \in T : ~(y < x)
  BY <1>1 DEF OpToRel
<1> QED
  BY <1>2

\* step[g] gives the values of a function from those g has where the rank is lower.
Decreasing(D, V, rank, step) ==
  /\ V # {} /\ rank \in [D -> Nat] /\ step \in [[D -> V] -> [D -> V]]
  /\ \A g, h \in [D -> V], x \in D :
       (\A y \in D : rank[y] < rank[x] => g[y] = h[y]) => step[g][x] = step[h][x]

Solvable(D, V, step) == \E f \in [D -> V] : f = step[f]

\* A recursive definition whose rank decreases has a solution.
LEMMA Recursion ==
  ASSUME NEW D, NEW V, NEW rank, NEW step, Decreasing(D, V, rank, step)
  PROVE  Solvable(D, V, step)
<1>0. /\ V # {} /\ rank \in [D -> Nat] /\ step \in [[D -> V] -> [D -> V]]
      /\ \A g, h \in [D -> V], x \in D :
           (\A y \in D : rank[y] < rank[x] => g[y] = h[y]) => step[g][x] = step[h][x]
  BY DEF Decreasing
<1> DEFINE Solves(g, k) == \A x \in D : rank[x] < k => step[g][x] = g[x]
<1>1. \A k \in Nat : \E g \in [D -> V] : Solves(g, k)
  <2> DEFINE T == {k \in Nat : \A g \in [D -> V] : ~Solves(g, k)}
  <2> SUFFICES ASSUME T # {} PROVE FALSE
    OBVIOUS
  <2>1. PICK k \in T : \A j \in T : ~(j < k)
    BY LeastNumber
  <2>2. PICK v \in V : TRUE
    BY <1>0
  <2>3. [x \in D |-> v] \in [D -> V]
    OBVIOUS
  <2>4. k # 0
    <3>1. \A x \in D : ~(rank[x] < 0)
      BY <1>0
    <3>2. Solves([x \in D |-> v], 0)
      BY <3>1
    <3> HIDE DEF Solves
    <3> QED
      BY <2>1, <2>3, <3>2
  <2>5. k - 1 \in Nat /\ k - 1 \notin T
    BY <2>1, <2>4
  <2>6. PICK g \in [D -> V] : Solves(g, k - 1)
    BY <2>5
  <2>7. ASSUME NEW x \in D, rank[x] < k
        PROVE  step[step[g]][x] = step[g][x]
    <3>1. \A y \in D : rank[y] < rank[x] => step[g][y] = g[y]
      BY <1>0, <2>1, <2>6, <2>7
    <3>2. step[g] \in [D -> V]
      BY <1>0
    <3> QED
      BY <1>0, <3>1, <3>2
  <2>8. step[g] \in [D -> V] /\ Solves(step[g], k)
    BY <1>0, <2>7
  <2> QED
    BY <2>1, <2>8
<1>2. ASSUME NEW g \in [D -> V], NEW h \in [D -> V], NEW k \in Nat, Solves(g, k), Solves(h, k),
             NEW z \in D, rank[z] < k
      PROVE  g[z] = h[z]
  <2> DEFINE T == {rank[x] : x \in {y \in D : rank[y] < k /\ g[y] # h[y]}}
  <2>1. T = {}
    <3> SUFFICES ASSUME T # {} PROVE FALSE
      OBVIOUS
    <3>0. T \subseteq Nat
      BY <1>0
    <3>1. PICK m \in T : \A j \in T : ~(j < m)
      BY <3>0, LeastNumber
    <3>2. PICK x \in D : rank[x] < k /\ g[x] # h[x] /\ m = rank[x]
      BY <3>1
    <3>3. \A y \in D : rank[y] < rank[x] => g[y] = h[y]
      BY <1>0, <3>1, <3>2
    <3>4. step[g][x] = step[h][x]
      BY <1>0, <3>3
    <3> QED
      BY <1>2, <3>2, <3>4
  <2>2. {y \in D : rank[y] < k /\ g[y] # h[y]} = {}
    BY <2>1
  <2> QED
    BY <1>2, <2>2
<1> DEFINE Upto(k) == CHOOSE g \in [D -> V] : Solves(g, k)
           f == [x \in D |-> Upto(rank[x] + 1)[x]]
<1>3. \A k \in Nat : Upto(k) \in [D -> V] /\ Solves(Upto(k), k)
  BY <1>1
<1> HIDE DEF Upto
<1>4. f \in [D -> V]
  BY <1>0, <1>3
<1>5. ASSUME NEW x \in D
      PROVE  f[x] = step[f][x]
  <2> DEFINE g == Upto(rank[x] + 1)
  <2>1. g \in [D -> V] /\ Solves(g, rank[x] + 1)
    BY <1>0, <1>3
  <2>2. ASSUME NEW y \in D, rank[y] < rank[x]
        PROVE  f[y] = g[y]
    <3> DEFINE k == rank[y] + 1
    <3>1. k \in Nat /\ rank[y] < k /\ Upto(k) \in [D -> V] /\ Solves(Upto(k), k)
      BY <1>0, <1>3
    <3>2. Solves(g, k)
      BY <1>0, <2>1, <2>2
    <3>3. Upto(k)[y] = g[y]
      BY <1>2, <2>1, <3>1, <3>2
    <3> QED
      BY <3>3
  <2>3. step[f][x] = step[g][x]
    BY <1>0, <1>4, <2>1, <2>2
  <2>4. step[g][x] = g[x]
    BY <1>0, <2>1
  <2> QED
    BY <2>3, <2>4
<1>6. step[f] \in [D -> V]
  BY <1>0, <1>4
<1> QED
  BY <1>4, <1>5, <1>6 DEF Solvable

-----------------------------------------------------------------------------
(* Sums                                                                    *)

\* What sum is in Total.
LEMMA TotalSum ==
  ASSUME NEW v \in [Nodes -> Nat]
  PROVE  \E sum :
           /\ sum \in [Files -> Nat]
           /\ \A m \in Files : sum[m] = IF m = 0 THEN 0 ELSE sum[m - 1] + v[m]
           /\ Total(v) = sum[MaxNode]
<1> DEFINE Summed(g, m) == IF m = 0 THEN 0 ELSE g[m - 1] + v[m]
           Holds(g) == g = [m \in Files |-> IF m = 0 THEN 0 ELSE g[m - 1] + v[m]]
           step == [g \in [Files -> Nat] |-> [m \in Files |-> Summed(g, m)]]
           rank == [m \in Files |-> m]
<1>1. rank \in [Files -> Nat] /\ \A m \in Files : m # 0 => m - 1 \in Files /\ m \in Nodes
  BY SizeAssumption DEF Files, Nodes
<1>2. \A g \in [Files -> Nat], m \in Files : Summed(g, m) \in Nat
  BY <1>1
<1>3. step \in [[Files -> Nat] -> [Files -> Nat]]
  BY <1>2
<1>4. Decreasing(Files, Nat, rank, step)
  <2>1. ASSUME NEW g \in [Files -> Nat], NEW h \in [Files -> Nat], NEW m \in Files,
               \A k \in Files : rank[k] < rank[m] => g[k] = h[k]
        PROVE  step[g][m] = step[h][m]
    <3>1. m # 0 => m - 1 \in Files /\ m - 1 < m
      BY <1>1, SizeAssumption DEF Files
    <3>2. m # 0 => g[m - 1] = h[m - 1]
      BY <2>1, <3>1
    <3>3. step[g][m] = Summed(g, m) /\ step[h][m] = Summed(h, m)
      OBVIOUS
    <3> HIDE DEF step
    <3> QED
      BY <3>2, <3>3
  <2>2. Nat # {}
    OBVIOUS
  <2> HIDE DEF step, rank
  <2> QED
    BY <1>1, <1>3, <2>1, <2>2 DEF Decreasing
<1>5. PICK f \in [Files -> Nat] : f = step[f]
  <2> HIDE DEF step, rank
  <2> QED
    BY <1>4, Recursion DEF Solvable
<1>6. Holds(f)
  BY <1>5
<1> DEFINE sum == CHOOSE g : Holds(g)
<1>7. Holds(sum)
  BY <1>6
<1>8. Total(v) = sum[MaxNode]
  BY DEF Total
<1> HIDE DEF sum
<1>9. {m \in Files : sum[m] \notin Nat} = {}
  <2> DEFINE T == {m \in Files : sum[m] \notin Nat}
  <2> SUFFICES ASSUME T # {} PROVE FALSE
    OBVIOUS
  <2>1. T \subseteq Nat
    BY SizeAssumption DEF Files
  <2>2. PICK m \in T : \A j \in T : ~(j < m)
    BY <2>1, LeastNumber
  <2>3. sum[m] = IF m = 0 THEN 0 ELSE sum[m - 1] + v[m]
    BY <1>7, <2>2
  <2>4. m # 0 => m - 1 \in Files /\ m - 1 < m /\ v[m] \in Nat
    BY <1>1, <2>2, SizeAssumption DEF Files
  <2>5. m # 0 => sum[m - 1] \in Nat
    BY <2>2, <2>4
  <2> QED
    BY <2>2, <2>3, <2>4, <2>5
<1>10. sum \in [Files -> Nat]
  BY <1>7, <1>9
<1> QED
  BY <1>7, <1>8, <1>10

\* How a sum up to m depends on the numbers.
SumUp(v, sum) ==
  /\ sum \in [Files -> Nat]
  /\ \A m \in Files : sum[m] = IF m = 0 THEN 0 ELSE sum[m - 1] + v[m]

LEMMA TotalFacts ==
  ASSUME NEW v \in [Nodes -> Nat]
  PROVE  Total(v) \in Nat /\ \E sum : SumUp(v, sum) /\ Total(v) = sum[MaxNode]
<1>1. MaxNode \in Files
  BY SizeAssumption DEF Files
<1>2. PICK sum : /\ sum \in [Files -> Nat]
                 /\ \A m \in Files : sum[m] = IF m = 0 THEN 0 ELSE sum[m - 1] + v[m]
                 /\ Total(v) = sum[MaxNode]
  BY TotalSum
<1> QED
  BY <1>1, <1>2 DEF SumUp

\* A sum of larger numbers is larger.
LEMMA TotalMonotone ==
  ASSUME NEW v \in [Nodes -> Nat], NEW w \in [Nodes -> Nat], \A g \in Nodes : v[g] <= w[g]
  PROVE  Total(v) <= Total(w)
<1>1. PICK s : SumUp(v, s) /\ Total(v) = s[MaxNode]
  BY TotalFacts
<1>2. PICK t : SumUp(w, t) /\ Total(w) = t[MaxNode]
  BY TotalFacts
<1> DEFINE T == {m \in Files : ~(s[m] <= t[m])}
<1>3. T = {}
  <2> SUFFICES ASSUME T # {} PROVE FALSE
    OBVIOUS
  <2>1. T \subseteq Nat
    BY SizeAssumption DEF Files
  <2>2. PICK m \in T : \A j \in T : ~(j < m)
    BY <2>1, LeastNumber
  <2>3. m # 0
    BY <1>1, <1>2, <2>2 DEF SumUp
  <2>4. m - 1 \in Files /\ m \in Nodes /\ m - 1 < m
    BY <2>2, <2>3, SizeAssumption DEF Files, Nodes
  <2>5. s[m - 1] <= t[m - 1]
    BY <2>2, <2>4
  <2>6. s[m] = s[m - 1] + v[m] /\ t[m] = t[m - 1] + w[m]
    BY <1>1, <1>2, <2>2, <2>3 DEF SumUp
  <2>7. /\ s[m - 1] \in Nat /\ t[m - 1] \in Nat /\ v[m] \in Nat /\ w[m] \in Nat
        /\ v[m] <= w[m]
    BY <1>1, <1>2, <2>4 DEF SumUp
  <2> QED
    BY <2>2, <2>5, <2>6, <2>7
<1> QED
  BY <1>1, <1>2, <1>3, SizeAssumption DEF Files

\* A number that grows makes the sum grow as much.
LEMMA TotalAdd ==
  ASSUME NEW v \in [Nodes -> Nat], NEW w \in [Nodes -> Nat], NEW f \in Nodes, NEW d \in Nat,
         \A g \in Nodes : w[g] = IF g = f THEN v[g] + d ELSE v[g]
  PROVE  Total(w) = Total(v) + d
<1>1. PICK s : SumUp(v, s) /\ Total(v) = s[MaxNode]
  BY TotalFacts
<1>2. PICK t : SumUp(w, t) /\ Total(w) = t[MaxNode]
  BY TotalFacts
<1> DEFINE T == {m \in Files : t[m] # IF m < f THEN s[m] ELSE s[m] + d}
<1>3. T = {}
  <2> SUFFICES ASSUME T # {} PROVE FALSE
    OBVIOUS
  <2>1. T \subseteq Nat
    BY SizeAssumption DEF Files
  <2>2. PICK m \in T : \A j \in T : ~(j < m)
    BY <2>1, LeastNumber
  <2>3. m # 0
    <3>1. t[0] = 0 /\ s[0] = 0 /\ 0 < f
      BY <1>1, <1>2, SizeAssumption DEF SumUp, Files, Nodes
    <3> QED
      BY <2>2, <3>1
  <2>4. m - 1 \in Files /\ m \in Nodes /\ m - 1 < m /\ m \in Int /\ f \in Int
    BY <2>2, <2>3, SizeAssumption DEF Files, Nodes
  <2>5. t[m - 1] = IF m - 1 < f THEN s[m - 1] ELSE s[m - 1] + d
    BY <2>2, <2>4
  <2>6. s[m] = s[m - 1] + v[m] /\ t[m] = t[m - 1] + w[m]
    BY <1>1, <1>2, <2>2, <2>3 DEF SumUp
  <2>7. s[m - 1] \in Nat /\ t[m - 1] \in Nat /\ v[m] \in Nat /\ w[m] \in Nat
    BY <1>1, <1>2, <2>4 DEF SumUp
  <2>8. w[m] = IF m = f THEN v[m] + d ELSE v[m]
    BY <2>4
  <2>9. t[m] = IF m < f THEN s[m] ELSE s[m] + d
    BY <2>4, <2>5, <2>6, <2>7, <2>8
  <2> QED
    BY <2>2, <2>9
<1>4. MaxNode \in Files /\ ~(MaxNode < f)
  BY SizeAssumption DEF Files, Nodes
<1> QED
  BY <1>1, <1>2, <1>3, <1>4

LEMMA TotalZero ==
  ASSUME NEW v \in [Nodes -> Nat], \A g \in Nodes : v[g] = 0
  PROVE  Total(v) = 0
<1>1. PICK s : SumUp(v, s) /\ Total(v) = s[MaxNode]
  BY TotalFacts
<1> DEFINE T == {m \in Files : s[m] # 0}
<1>2. T = {}
  <2> SUFFICES ASSUME T # {} PROVE FALSE
    OBVIOUS
  <2>1. T \subseteq Nat
    BY SizeAssumption DEF Files
  <2>2. PICK m \in T : \A j \in T : ~(j < m)
    BY <2>1, LeastNumber
  <2>3. m # 0
    BY <1>1, <2>2 DEF SumUp
  <2>4. m - 1 \in Files /\ m \in Nodes /\ m - 1 < m
    BY <2>2, <2>3, SizeAssumption DEF Files, Nodes
  <2>5. s[m] = s[m - 1] + v[m] /\ s[m - 1] = 0 /\ v[m] = 0
    BY <1>1, <2>2, <2>3, <2>4 DEF SumUp
  <2> QED
    BY <2>2, <2>5
<1> QED
  BY <1>1, <1>2, SizeAssumption DEF Files

-----------------------------------------------------------------------------
(* The size of a tree                                                      *)

\* The tree, its kinds, directories and links.
IsShape(sh) ==
  /\ \A f \in Files : sh[f].kind \in Kinds /\ sh[f].parent \in Files /\ sh[f].target \in Files
  /\ \A f \in Nodes : sh[f].parent < f
  /\ sh[Top].kind \in {"dir", "locked"}

\* The entries a directory may have.
Kids(sh, d) == {g \in Nodes : sh[g].parent = d}

\* The sizes of the entries D, by paths through files of S with n links more.
Part(sh, S, D, n) ==
  Total([g \in Nodes |-> IF g \in D THEN Sizes(sh, S)[<<g, n>>] ELSE 0])

Points == Files \X (0..Links)

\* A point is further from the end, the more links are left and the smaller the file.
Rank == [x \in Points |-> x[2] * (MaxNode + 1) + (MaxNode - x[1])]

LEMMA RankNat ==
  /\ Rank \in [Points -> Nat]
  /\ \A n \in 0..Links, f, g \in Files : g > f => Rank[<<g, n>>] < Rank[<<f, n>>]
  /\ \A n \in 0..Links, f, g \in Files : n > 0 => Rank[<<g, n - 1>>] < Rank[<<f, n>>]
<1> DEFINE K == MaxNode + 1
<1>1. K \in Nat /\ MaxNode \in Nat /\ Links \in Nat /\ K = MaxNode + 1
  BY SizeAssumption
<1>2. \A n \in 0..Links, f \in Files : Rank[<<f, n>>] = n * K + (MaxNode - f)
  BY DEF Rank, Points
<1> HIDE DEF K
<1>3. \A n \in 0..Links : n * K \in Nat /\ (n > 0 => (n - 1) * K = n * K - K)
  BY <1>1
<1>4. \A f \in Files : f \in 0..MaxNode
  BY DEF Files
<1>5. Rank = [x \in Points |-> Rank[x]]
  BY DEF Rank
<1>6. ASSUME NEW n \in 0..Links, NEW f \in Files
      PROVE  Rank[<<f, n>>] \in Nat
  BY <1>1, <1>2, <1>3, <1>4
<1>7. ASSUME NEW n \in 0..Links, NEW f \in Files, NEW g \in Files, g > f
      PROVE  Rank[<<g, n>>] < Rank[<<f, n>>]
  BY <1>1, <1>2, <1>3, <1>4, <1>7
<1>8. ASSUME NEW n \in 0..Links, NEW f \in Files, NEW g \in Files, n > 0
      PROVE  Rank[<<g, n - 1>>] < Rank[<<f, n>>]
  <2>1. n - 1 \in 0..Links
    BY <1>1, <1>8
  <2> QED
    BY <1>1, <1>2, <1>3, <1>4, <1>8, <2>1
<1>9. Rank \in [Points -> Nat]
  BY <1>5, <1>6 DEF Points
<1> QED
  BY <1>7, <1>8, <1>9

\* A step of Sizes depends on the points of lower rank only.
LEMMA SizeSame ==
  ASSUME NEW sh, IsShape(sh), NEW S, NEW g, NEW h, NEW x \in Points,
         \A y \in Points : Rank[y] < Rank[x] => g[y] = h[y]
  PROVE  SizeAt(sh, S, g, x) = SizeAt(sh, S, h, x)
<1> DEFINE f == x[1]
           n == x[2]
           Kid(k) == [c \in Nodes |-> IF sh[c].parent = f THEN k[<<c, n>>] ELSE 0]
           Case(k) == CASE f \in S \cup {Top} /\ sh[f].kind = "reg" -> st_size[f]
                        [] f \in S \cup {Top} /\ sh[f].kind = "link" /\ n > 0 ->
                             k[<<sh[f].target, n - 1>>]
                        [] f \in S \cup {Top} /\ sh[f].kind = "dir" -> Total(Kid(k))
                        [] OTHER -> 0
<1>1. x = <<f, n>> /\ f \in Files /\ n \in 0..Links
  BY DEF Points
<1>2. SizeAt(sh, S, g, x) = Case(g) /\ SizeAt(sh, S, h, x) = Case(h)
  BY DEF SizeAt
<1>3. n > 0 => <<sh[f].target, n - 1>> \in Points
  BY <1>1, SizeAssumption DEF IsShape, Points
<1>4. \A c \in Nodes : <<c, n>> \in Points /\ c \in Files
  BY <1>1, SizeAssumption DEF Points, Nodes, Files
<1>5. n > 0 => g[<<sh[f].target, n - 1>>] = h[<<sh[f].target, n - 1>>]
  BY <1>1, <1>3, RankNat DEF IsShape
<1>6. \A c \in Nodes : sh[c].parent = f => g[<<c, n>>] = h[<<c, n>>]
  <2> TAKE c \in Nodes
  <2> HAVE sh[c].parent = f
  <2>1. c > f
    BY <1>1, SizeAssumption DEF IsShape, Nodes, Files
  <2> QED
    BY <1>1, <1>4, <2>1, RankNat
<1>7. Kid(g) = Kid(h)
  BY <1>6
<1>8. Case(g) = Case(h)
  <2> HIDE DEF f, n, Kid
  <2> QED
    BY <1>5, <1>7
<1> QED
  BY <1>2, <1>8

LEMMA SizeNat ==
  ASSUME NEW sh, IsShape(sh), NEW S, NEW g \in [Points -> Nat], NEW x \in Points
  PROVE  SizeAt(sh, S, g, x) \in Nat
<1> DEFINE f == x[1]
           n == x[2]
           Kid == [c \in Nodes |-> IF sh[c].parent = f THEN g[<<c, n>>] ELSE 0]
<1>1. f \in Files /\ n \in 0..Links
  BY DEF Points
<1>2. sh[f].kind = "reg" => st_size[f] \in Nat
  <2>1. sh[f].kind = "reg" => f # Top /\ f \in Nodes
    BY <1>1, SizeAssumption DEF IsShape, Files, Nodes, Top
  <2> QED
    BY <2>1, SizeAssumption
<1>3. n > 0 => <<sh[f].target, n - 1>> \in Points
  BY <1>1, SizeAssumption DEF IsShape, Points
<1>4. Kid \in [Nodes -> Nat]
  BY <1>1, SizeAssumption DEF Points, Nodes, Files
<1>5. Total(Kid) \in Nat
  BY <1>4, TotalFacts
<1>6. SizeAt(sh, S, g, x) =
        CASE f \in S \cup {Top} /\ sh[f].kind = "reg" -> st_size[f]
          [] f \in S \cup {Top} /\ sh[f].kind = "link" /\ n > 0 -> g[<<sh[f].target, n - 1>>]
          [] f \in S \cup {Top} /\ sh[f].kind = "dir" -> Total(Kid)
          [] OTHER -> 0
  BY DEF SizeAt
<1> HIDE DEF f, n, Kid
<1> QED
  BY <1>2, <1>3, <1>5, <1>6

\* The recursion of Sizes has a solution, and so Sizes is it.
LEMMA SizesAre ==
  ASSUME NEW sh, IsShape(sh), NEW S
  PROVE  /\ Sizes(sh, S) \in [Points -> Nat]
         /\ \A x \in Points : Sizes(sh, S)[x] = SizeAt(sh, S, Sizes(sh, S), x)
<1> DEFINE Holds(h) == h = [x \in Points |-> SizeAt(sh, S, h, x)]
           step == [g \in [Points -> Nat] |-> [x \in Points |-> SizeAt(sh, S, g, x)]]
           size == CHOOSE h : Holds(h)
<1>1. Sizes(sh, S) = size
  BY DEF Sizes, Points
<1>2. step \in [[Points -> Nat] -> [Points -> Nat]]
  BY SizeNat
<1>3. \A g, h \in [Points -> Nat], x \in Points :
        (\A y \in Points : Rank[y] < Rank[x] => g[y] = h[y]) => step[g][x] = step[h][x]
  BY SizeSame
<1>4. Nat # {}
  OBVIOUS
<1>5. PICK f \in [Points -> Nat] : f = step[f]
  <2> HIDE DEF step
  <2>1. Decreasing(Points, Nat, Rank, step)
    BY <1>2, <1>3, <1>4, RankNat DEF Decreasing
  <2> QED
    BY <2>1, Recursion DEF Solvable
<1>6. Holds(f)
  BY <1>5
<1>7. Holds(size)
  BY <1>6
<1> HIDE DEF size
<1>8. \A x \in Points : size[x] = f[x]
  <2> DEFINE T == {Rank[x] : x \in {y \in Points : size[y] # f[y]}}
  <2> SUFFICES ASSUME T # {} PROVE FALSE
    OBVIOUS
  <2>1. T \subseteq Nat
    BY RankNat
  <2>2. PICK m \in T : \A j \in T : ~(j < m)
    BY <2>1, LeastNumber
  <2>3. PICK x \in Points : size[x] # f[x] /\ m = Rank[x]
    BY <2>2
  <2>4. \A y \in Points : Rank[y] < Rank[x] => size[y] = f[y]
    BY <2>2, <2>3
  <2>5. SizeAt(sh, S, size, x) = SizeAt(sh, S, f, x)
    BY <2>4, SizeSame
  <2>6. size[x] = SizeAt(sh, S, size, x) /\ f[x] = SizeAt(sh, S, f, x)
    BY <1>6, <1>7
  <2> QED
    BY <2>3, <2>5, <2>6
<1> QED
  BY <1>1, <1>7, <1>8

\* A tree of more files is as large or larger.
LEMMA SizesMonotone ==
  ASSUME NEW sh, IsShape(sh), NEW S, NEW T, S \subseteq T, NEW x \in Points
  PROVE  Sizes(sh, S)[x] <= Sizes(sh, T)[x]
<1> DEFINE s == Sizes(sh, S)
           t == Sizes(sh, T)
<1>1. s \in [Points -> Nat] /\ t \in [Points -> Nat]
  BY SizesAre
<1>2. \A y \in Points : s[y] = SizeAt(sh, S, s, y) /\ t[y] = SizeAt(sh, T, t, y)
  BY SizesAre
<1> HIDE DEF s, t
<1> DEFINE R == {Rank[z] : z \in {y \in Points : ~(s[y] <= t[y])}}
<1>3. R = {}
  <2> SUFFICES ASSUME R # {} PROVE FALSE
    OBVIOUS
  <2>1. R \subseteq Nat
    BY RankNat
  <2>2. PICK m \in R : \A j \in R : ~(j < m)
    BY <2>1, LeastNumber
  <2>3. PICK z \in Points : ~(s[z] <= t[z]) /\ m = Rank[z]
    BY <2>2
  <2>4. \A y \in Points : Rank[y] < Rank[z] => s[y] <= t[y]
    BY <2>2, <2>3
  <2> DEFINE f == z[1]
             n == z[2]
             Kid(k) == [c \in Nodes |-> IF sh[c].parent = f THEN k[<<c, n>>] ELSE 0]
             Case(U, k) == CASE f \in U \cup {Top} /\ sh[f].kind = "reg" -> st_size[f]
                             [] f \in U \cup {Top} /\ sh[f].kind = "link" /\ n > 0 ->
                                  k[<<sh[f].target, n - 1>>]
                             [] f \in U \cup {Top} /\ sh[f].kind = "dir" -> Total(Kid(k))
                             [] OTHER -> 0
  <2>5. z = <<f, n>> /\ f \in Files /\ n \in 0..Links
    BY DEF Points
  <2>6. s[z] = Case(S, s) /\ t[z] = Case(T, t)
    BY <1>2 DEF SizeAt
  <2>7. n > 0 => s[<<sh[f].target, n - 1>>] <= t[<<sh[f].target, n - 1>>]
    BY <2>4, <2>5, RankNat, SizeAssumption DEF IsShape, Points
  <2>8. \A c \in Nodes : <<c, n>> \in Points /\ c \in Files
    BY <2>5, SizeAssumption DEF Points, Nodes, Files
  <2>9. Kid(s) \in [Nodes -> Nat] /\ Kid(t) \in [Nodes -> Nat]
    BY <1>1, <2>8
  <2>10. \A c \in Nodes : Kid(s)[c] <= Kid(t)[c]
    <3>1. ASSUME NEW c \in Nodes, sh[c].parent = f
          PROVE  s[<<c, n>>] <= t[<<c, n>>]
      <4>1. c > f
        BY <2>5, <3>1, SizeAssumption DEF IsShape, Nodes, Files
      <4> QED
        BY <2>4, <2>5, <2>8, <4>1, RankNat
    <3> QED
      BY <3>1
  <2>11. Total(Kid(s)) <= Total(Kid(t))
    <3> HIDE DEF Kid
    <3> QED
      BY <2>9, <2>10, TotalMonotone
  <2>12. s[z] \in Nat /\ t[z] \in Nat
    BY <1>1
  <2>13. sh[f].kind = "reg" => st_size[f] \in Nat
    <3>1. sh[f].kind = "reg" => f \in Nodes
      BY <2>5, SizeAssumption DEF IsShape, Files, Nodes, Top
    <3> QED
      BY <3>1, SizeAssumption
  <2> HIDE DEF f, n, Kid
  <2> QED
    BY <2>3, <2>6, <2>7, <2>11, <2>12, <2>13
<1>4. s[x] <= t[x]
  BY <1>3
<1> QED
  BY <1>4 DEF s, t

\* What a file counts for.
LEMMA SizeCases ==
  ASSUME NEW sh, IsShape(sh), NEW S, NEW f \in Files, NEW n \in 0..Links
  PROVE  /\ f \notin S \cup {Top} => Sizes(sh, S)[<<f, n>>] = 0
         /\ sh[f].kind \in {"locked", "special"} => Sizes(sh, S)[<<f, n>>] = 0
         /\ sh[f].kind = "link" /\ ~(n > 0) => Sizes(sh, S)[<<f, n>>] = 0
         /\ f \in S \cup {Top} /\ sh[f].kind = "reg" => Sizes(sh, S)[<<f, n>>] = st_size[f]
         /\ f \in S \cup {Top} /\ sh[f].kind = "dir" =>
              Sizes(sh, S)[<<f, n>>] = Part(sh, S, Kids(sh, f), n)
<1> DEFINE s == Sizes(sh, S)
           x == <<f, n>>
           dir == Total([g \in Nodes |-> IF sh[g].parent = f THEN s[<<g, n>>] ELSE 0])
           link == s[<<sh[f].target, n - 1>>]
<1>1. x \in Points /\ x[1] = f /\ x[2] = n
  BY DEF Points
<1>2. s[x] = SizeAt(sh, S, s, x)
  BY <1>1, SizesAre
<1>3. SizeAt(sh, S, s, x) =
        CASE f \in S \cup {Top} /\ sh[f].kind = "reg" -> st_size[f]
          [] f \in S \cup {Top} /\ sh[f].kind = "link" /\ n > 0 -> link
          [] f \in S \cup {Top} /\ sh[f].kind = "dir" -> dir
          [] OTHER -> 0
  BY DEF SizeAt
<1>4. sh[f].kind \in Kinds /\ n \in Int
  BY SizeAssumption DEF IsShape
<1>7. dir = Part(sh, S, Kids(sh, f), n)
  <2>1. [g \in Nodes |-> IF g \in Kids(sh, f) THEN s[<<g, n>>] ELSE 0]
          = [g \in Nodes |-> IF sh[g].parent = f THEN s[<<g, n>>] ELSE 0]
    BY DEF Kids
  <2> QED
    BY <2>1, Zenon DEF Part
<1> HIDE DEF dir, link
<1>5. s[x] = CASE f \in S \cup {Top} /\ sh[f].kind = "reg" -> st_size[f]
               [] f \in S \cup {Top} /\ sh[f].kind = "link" /\ n > 0 -> link
               [] f \in S \cup {Top} /\ sh[f].kind = "dir" -> dir
               [] OTHER -> 0
  BY <1>2, <1>3
<1>6. /\ f \notin S \cup {Top} => s[x] = 0
      /\ sh[f].kind \in {"locked", "special"} => s[x] = 0
      /\ sh[f].kind = "link" /\ ~(n > 0) => s[x] = 0
      /\ f \in S \cup {Top} /\ sh[f].kind = "reg" => s[x] = st_size[f]
      /\ f \in S \cup {Top} /\ sh[f].kind = "link" /\ n > 0 => s[x] = link
      /\ f \in S \cup {Top} /\ sh[f].kind = "dir" => s[x] = dir
  BY <1>4, <1>5 DEF Kinds
<1> QED
  BY <1>6, <1>7 DEF link

\* The size of a directory that is there is the sum over its entries.
LEMMA DirSize ==
  ASSUME NEW sh, IsShape(sh), NEW S, NEW f \in Files, NEW n \in 0..Links,
         f \in S \cup {Top}, sh[f].kind = "dir"
  PROVE  Sizes(sh, S)[<<f, n>>] = Part(sh, S, Kids(sh, f), n)
BY SizeCases

LEMMA SizesNat ==
  ASSUME NEW sh, IsShape(sh), NEW S, NEW f \in Files, NEW n \in 0..Links
  PROVE  Sizes(sh, S)[<<f, n>>] \in Nat
BY SizesAre DEF Points

-----------------------------------------------------------------------------
(* The sizes of entries                                                    *)

LEMMA PartFacts ==
  ASSUME NEW sh, IsShape(sh), NEW S, NEW D, NEW n \in 0..Links
  PROVE  /\ [g \in Nodes |-> IF g \in D THEN Sizes(sh, S)[<<g, n>>] ELSE 0] \in [Nodes -> Nat]
         /\ Part(sh, S, D, n) \in Nat
<1>1. \A g \in Nodes : Sizes(sh, S)[<<g, n>>] \in Nat
  BY SizesNat, SizeAssumption DEF Files, Nodes
<1>2. [g \in Nodes |-> IF g \in D THEN Sizes(sh, S)[<<g, n>>] ELSE 0] \in [Nodes -> Nat]
  BY <1>1
<1> QED
  BY <1>2, TotalFacts DEF Part

\* An entry more.
LEMMA PartAdd ==
  ASSUME NEW sh, IsShape(sh), NEW S, NEW D, NEW n \in 0..Links, NEW f \in Nodes, f \notin D
  PROVE  Part(sh, S, D \cup {f}, n) = Part(sh, S, D, n) + Sizes(sh, S)[<<f, n>>]
<1> DEFINE v == [g \in Nodes |-> IF g \in D THEN Sizes(sh, S)[<<g, n>>] ELSE 0]
           w == [g \in Nodes |-> IF g \in D \cup {f} THEN Sizes(sh, S)[<<g, n>>] ELSE 0]
           d == Sizes(sh, S)[<<f, n>>]
<1>1. v \in [Nodes -> Nat] /\ w \in [Nodes -> Nat]
  BY PartFacts
<1>2. d \in Nat
  BY SizesNat, SizeAssumption DEF Files, Nodes
<1>3. \A g \in Nodes : w[g] = IF g = f THEN v[g] + d ELSE v[g]
  BY <1>2
<1>4. Part(sh, S, D, n) = Total(v) /\ Part(sh, S, D \cup {f}, n) = Total(w)
  BY DEF Part
<1> HIDE DEF v, w, d
<1>5. Total(w) = Total(v) + d
  BY <1>1, <1>2, <1>3, TotalAdd
<1> QED
  BY <1>4, <1>5 DEF d

\* More files.
LEMMA PartMonotone ==
  ASSUME NEW sh, IsShape(sh), NEW S, NEW T, S \subseteq T, NEW D, NEW n \in 0..Links
  PROVE  Part(sh, S, D, n) <= Part(sh, T, D, n)
<1> DEFINE v == [g \in Nodes |-> IF g \in D THEN Sizes(sh, S)[<<g, n>>] ELSE 0]
           w == [g \in Nodes |-> IF g \in D THEN Sizes(sh, T)[<<g, n>>] ELSE 0]
<1>1. v \in [Nodes -> Nat] /\ w \in [Nodes -> Nat]
  BY PartFacts
<1>2. \A g \in Nodes : <<g, n>> \in Points
  BY SizeAssumption DEF Files, Nodes, Points
<1>3. \A g \in Nodes : Sizes(sh, S)[<<g, n>>] <= Sizes(sh, T)[<<g, n>>]
  BY <1>2, SizesMonotone
<1>4. \A g \in Nodes : v[g] <= w[g]
  BY <1>3
<1> HIDE DEF v, w
<1>5. Total(v) <= Total(w)
  BY <1>1, <1>4, TotalMonotone
<1> QED
  BY <1>5 DEF Part, v, w

\* Entries that are not there.
LEMMA PartZero ==
  ASSUME NEW sh, IsShape(sh), NEW S, NEW D, NEW n \in 0..Links,
         \A g \in D \cap Nodes : g \notin S
  PROVE  Part(sh, S, D, n) = 0
<1> DEFINE v == [g \in Nodes |-> IF g \in D THEN Sizes(sh, S)[<<g, n>>] ELSE 0]
<1>1. v \in [Nodes -> Nat]
  BY PartFacts
<1>2. \A g \in Nodes : g \in Files /\ g # Top
  BY SizeAssumption DEF Files, Nodes, Top
<1>3. ASSUME NEW g \in Nodes
      PROVE  v[g] = 0
  <2>1. g \in D => Sizes(sh, S)[<<g, n>>] = 0
    BY <1>2, SizeCases
  <2> QED
    BY <2>1
<1> HIDE DEF v
<1> QED
  BY <1>1, <1>3, TotalZero DEF Part, v

-----------------------------------------------------------------------------
(* stat                                                                    *)

\* What stat finds at the end of a path, and which path counts for nothing.
Ends(n, f, to) ==
  /\ \A r \in to :
       /\ r \in [node : Files, left : 0..Links, way : SUBSET Files]
       /\ f \in r.way /\ r.node \in r.way /\ r.way \subseteq there \cup {Top}
       /\ r.left <= n /\ (r.left = n => r.node = f)
       /\ \A S \in SUBSET Nodes :
            Sizes(shape, S)[<<f, n>>] =
              IF r.way \subseteq S \cup {Top} THEN Sizes(shape, S)[<<r.node, r.left>>] ELSE 0
  /\ to = {} => \A S \in SUBSET there : Sizes(shape, S)[<<f, n>>] = 0
  /\ f = Top => to = {[node |-> Top, left |-> n, way |-> {Top}]}

Found == [node : Files, left : 0..Links, way : SUBSET Files]

\* Follow, by recursion on the links left.
To(g, n) ==
  [f \in Files |->
     IF f \notin there \cup {Top} THEN {}
     ELSE IF Kind(f) # "link" THEN {[node |-> f, left |-> n, way |-> {f}]}
     ELSE IF n = 0 THEN {}
     ELSE {[r EXCEPT !.way = @ \cup {f}] : r \in g[n - 1][shape[f].target]}]

LEMMA FollowIs ==
  ASSUME IsShape(shape)
  PROVE  \A n \in 0..Links : Follow[n] = To(Follow, n)
<1> DEFINE D == 0..Links
           V == [Files -> SUBSET Found]
           Holds(h) == h = [n \in D |-> To(h, n)]
           to == CHOOSE h : Holds(h)
           step == [g \in [D -> V] |-> [n \in D |-> To(g, n)]]
           rank == [n \in D |-> n]
<1>1. Follow = to
  BY DEF Follow, To
<1>2. rank \in [D -> Nat] /\ \A n \in D : n # 0 => n - 1 \in D /\ n - 1 < n
  BY SizeAssumption
<1>3. ASSUME NEW g \in [D -> V], NEW n \in D
      PROVE  To(g, n) \in V
  <2>1. ASSUME NEW f \in Files, n # 0
        PROVE  g[n - 1][shape[f].target] \in SUBSET Found
    BY <1>2, <2>1 DEF IsShape
  <2>2. ASSUME NEW f \in Files, NEW r \in Found
        PROVE  [r EXCEPT !.way = @ \cup {f}] \in Found
    BY DEF Found
  <2>3. ASSUME NEW f \in Files
        PROVE  [node |-> f, left |-> n, way |-> {f}] \in Found
    BY DEF Found
  <2>4. \A f \in Files : To(g, n)[f] \in SUBSET Found
    BY <2>1, <2>2, <2>3 DEF To
  <2> QED
    BY <2>4 DEF To
<1>4. step \in [[D -> V] -> [D -> V]]
  <2> HIDE DEF V, D
  <2> QED
    BY <1>3
<1>5. ASSUME NEW g \in [D -> V], NEW h \in [D -> V], NEW n \in D,
             \A m \in D : rank[m] < rank[n] => g[m] = h[m]
      PROVE  step[g][n] = step[h][n]
  <2>1. n # 0 => g[n - 1] = h[n - 1]
    BY <1>2, <1>5
  <2>2. To(g, n) = To(h, n)
    BY <2>1 DEF To
  <2> HIDE DEF V, D
  <2> QED
    BY <2>2
<1>6. V # {}
  <2>1. [f \in Files |-> {}] \in V
    OBVIOUS
  <2> QED
    BY <2>1
<1>7. PICK h \in [D -> V] : h = step[h]
  <2> HIDE DEF step, rank, V, D
  <2>1. Decreasing(D, V, rank, step)
    BY <1>2, <1>4, <1>5, <1>6 DEF Decreasing
  <2> QED
    BY <2>1, Recursion DEF Solvable
<1>8. Holds(h)
  <2> HIDE DEF V, D
  <2> QED
    BY <1>7
<1>9. Holds(to)
  BY <1>8
<1> HIDE DEF to
<1> QED
  BY <1>1, <1>9

LEMMA FollowEnds ==
  ASSUME IsShape(shape), there \subseteq Nodes, NEW n \in 0..Links, NEW f \in Files
  PROVE  Ends(n, f, Follow[n][f])
<1> DEFINE Good(m) == \A g \in Files : Ends(m, g, Follow[m][g])
           T == {m \in 0..Links : ~Good(m)}
<1> SUFFICES ASSUME T # {} PROVE FALSE
  OBVIOUS
<1>1. T \subseteq Nat
  BY SizeAssumption
<1>2. PICK m \in T : \A j \in T : ~(j < m)
  BY <1>1, LeastNumber
<1>3. m \in 0..Links /\ (m # 0 => m - 1 \in 0..Links /\ Good(m - 1))
  BY <1>2, SizeAssumption
<1>4. ASSUME NEW g \in Files
      PROVE  Ends(m, g, Follow[m][g])
  <2> HIDE DEF Good, T
  <2> DEFINE to == Follow[m][g]
             s(S, x, k) == Sizes(shape, S)[<<x, k>>]
  <2>1. to = IF g \notin there \cup {Top} THEN {}
             ELSE IF Kind(g) # "link" THEN {[node |-> g, left |-> m, way |-> {g}]}
             ELSE IF m = 0 THEN {}
             ELSE {[r EXCEPT !.way = @ \cup {g}] : r \in Follow[m - 1][shape[g].target]}
    BY <1>3, FollowIs DEF To
  <2>2. Kind(Top) # "link"
    BY DEF IsShape, Kind
  <2>7. ASSUME NEW S
        PROVE  /\ g \notin S \cup {Top} => s(S, g, m) = 0
               /\ Kind(g) = "link" /\ ~(m > 0) => s(S, g, m) = 0
               /\ g \in S \cup {Top} /\ Kind(g) = "link" /\ m > 0 =>
                    s(S, g, m) = s(S, shape[g].target, m - 1)
    <3>1. m \in 0..Links
      BY <1>3
    <3>2. IsShape(shape)
      OBVIOUS
    <3>3. /\ g \notin S \cup {Top} => s(S, g, m) = 0
          /\ Kind(g) = "link" /\ ~(m > 0) => s(S, g, m) = 0
      BY <3>1, <3>2, SizeCases DEF Kind
    <3>4. g \in S \cup {Top} /\ Kind(g) = "link" /\ m > 0 =>
            s(S, g, m) = s(S, shape[g].target, m - 1)
      <4> SUFFICES ASSUME g \in S \cup {Top}, shape[g].kind = "link", m > 0
                   PROVE  s(S, g, m) = s(S, shape[g].target, m - 1)
        BY DEF Kind
      <4>1. <<g, m>> \in Points
        BY <3>1 DEF Points
      <4>2. Sizes(shape, S)[<<g, m>>] = SizeAt(shape, S, Sizes(shape, S), <<g, m>>)
        BY <3>2, <4>1, SizesAre
      <4> QED
        BY <4>2 DEF SizeAt
    <3> QED
      BY <3>3, <3>4
  <2> HIDE DEF s
  <2>3. CASE g \notin there \cup {Top}
    <3>1. \A S \in SUBSET there : s(S, g, m) = 0
      BY <2>3, <2>7
    <3> QED
      BY <2>1, <2>3, <3>1 DEF Ends, s
  <2>4. CASE g \in there \cup {Top} /\ Kind(g) # "link"
    <3>1. to = {[node |-> g, left |-> m, way |-> {g}]}
      BY <2>1, <2>4
    <3>2. \A S \in SUBSET Nodes : g \notin S \cup {Top} => s(S, g, m) = 0
      BY <2>7
    <3>3. m <= m
      BY <1>3
    <3> HIDE DEF to
    <3>4. ASSUME NEW r \in to
          PROVE  /\ r \in Found
                 /\ g \in r.way /\ r.node \in r.way /\ r.way \subseteq there \cup {Top}
                 /\ r.left <= m /\ r.node = g
                 /\ \A S \in SUBSET Nodes :
                      s(S, g, m) =
                        IF r.way \subseteq S \cup {Top} THEN s(S, r.node, r.left) ELSE 0
      <4>1. r = [node |-> g, left |-> m, way |-> {g}]
        BY <3>1
      <4>2. r.node = g /\ r.left = m /\ r.way = {g}
        BY <4>1
      <4>3. r \in Found
        BY <1>3, <4>1 DEF Found
      <4> QED
        BY <2>4, <3>2, <3>3, <4>2, <4>3
    <3>5. to # {} /\ (g = Top => to = {[node |-> Top, left |-> m, way |-> {Top}]})
      BY <3>1
    <3>6. Ends(m, g, to)
      BY <3>4, <3>5 DEF Ends, Found, s
    <3> QED
      BY <3>6 DEF to
  <2>5. CASE g \in there \cup {Top} /\ Kind(g) = "link" /\ m = 0
    <3>1. \A S \in SUBSET there : s(S, g, m) = 0
      BY <2>5, <2>7
    <3> QED
      BY <2>1, <2>2, <2>5, <3>1 DEF Ends, s
  <2>6. CASE g \in there \cup {Top} /\ Kind(g) = "link" /\ m # 0
    <3> DEFINE t == shape[g].target
               from == Follow[m - 1][t]
    <3>1. t \in Files /\ m > 0 /\ m - 1 < m /\ m - 1 \in 0..Links
      BY <1>3, <2>6, SizeAssumption DEF IsShape
    <3>2. Ends(m - 1, t, from)
      BY <1>3, <2>6, <3>1 DEF Good
    <3>3. to = {[r EXCEPT !.way = @ \cup {g}] : r \in from}
      BY <2>1, <2>6
    <3>4. \A S : g \in S \cup {Top} => s(S, g, m) = s(S, t, m - 1)
      BY <2>6, <2>7, <3>1
    <3>5. \A S : g \notin S \cup {Top} => s(S, g, m) = 0
      BY <2>7
    <3> HIDE DEF to, from, t
    <3>6. ASSUME NEW q \in from
          PROVE  LET r == [q EXCEPT !.way = @ \cup {g}] IN
                 /\ r \in Found
                 /\ g \in r.way /\ r.node \in r.way /\ r.way \subseteq there \cup {Top}
                 /\ r.left <= m /\ r.left # m
                 /\ \A S \in SUBSET Nodes :
                      s(S, g, m) =
                        IF r.way \subseteq S \cup {Top} THEN s(S, r.node, r.left) ELSE 0
      <4> DEFINE r == [q EXCEPT !.way = @ \cup {g}]
      <4>1. /\ q \in Found /\ q.node \in q.way /\ q.way \subseteq there \cup {Top}
            /\ q.left <= m - 1
            /\ \A S \in SUBSET Nodes :
                 s(S, t, m - 1) =
                   IF q.way \subseteq S \cup {Top} THEN s(S, q.node, q.left) ELSE 0
        BY <3>2 DEF Ends, Found, s
      <4>2. r \in Found /\ r.node = q.node /\ r.left = q.left /\ r.way = q.way \cup {g}
        BY <4>1 DEF Found
      <4>3. q.left \in Int /\ m \in Int
        BY <1>3, <4>1, SizeAssumption DEF Found
      <4>4. r.left <= m /\ r.left # m
        BY <4>1, <4>2, <4>3
      <4> HIDE DEF r
      <4>5. ASSUME NEW S \in SUBSET Nodes
            PROVE  s(S, g, m) = IF r.way \subseteq S \cup {Top} THEN s(S, r.node, r.left) ELSE 0
        <5>1. CASE g \in S \cup {Top}
          BY <3>4, <4>1, <4>2, <5>1
        <5>2. CASE g \notin S \cup {Top}
          BY <3>5, <4>2, <5>2
        <5> QED
          BY <5>1, <5>2
      <4>6. g \in r.way /\ r.node \in r.way /\ r.way \subseteq there \cup {Top}
        BY <2>6, <4>1, <4>2
      <4> QED
        BY <4>2, <4>4, <4>5, <4>6 DEF r
    <3>7. to = {} => \A S \in SUBSET there : s(S, g, m) = 0
      <4>1. to = {} => from = {}
        BY <3>3
      <4>2. from = {} => \A S \in SUBSET there : s(S, t, m - 1) = 0
        BY <3>2 DEF Ends, s
      <4> QED
        BY <3>4, <3>5, <4>1, <4>2
    <3>8. g # Top
      BY <2>2, <2>6
    <3>9. \A r \in to :
            /\ r \in Found
            /\ g \in r.way /\ r.node \in r.way /\ r.way \subseteq there \cup {Top}
            /\ r.left <= m /\ r.left # m
            /\ \A S \in SUBSET Nodes :
                 s(S, g, m) = IF r.way \subseteq S \cup {Top} THEN s(S, r.node, r.left) ELSE 0
      <4> TAKE r \in to
      <4>1. PICK q \in from : r = [q EXCEPT !.way = @ \cup {g}]
        BY <3>3
      <4> QED
        BY <3>6, <4>1
    <3>10. Ends(m, g, to)
      BY <3>7, <3>8, <3>9 DEF Ends, Found, s
    <3> QED
      BY <3>10 DEF to
  <2> QED
    BY <2>3, <2>4, <2>5, <2>6
<1> QED
  BY <1>2, <1>4

-----------------------------------------------------------------------------
(* The inductive invariant                                                 *)

\* The links a path of activation i may go through, and the entries it is done with.
Before(fs, i) == IF i = 1 THEN Links ELSE fs[i - 1].left

Done(sh, fs, i) ==
  Kids(sh, fs[i].node) \ (fs[i].list \cup (IF i < Len(fs) THEN {fs[i + 1].path} ELSE {}))

\* The way to the directory of activation i was there all the time.
Safe(al, fs, i) == \A j \in 1..i : fs[j].way \subseteq al \cup {Top}

Frame ==
  [path : Files, node : Files, way : SUBSET Files, left : 0..Links,
   at : {"stat", "scandir", "loop"}, list : SUBSET Nodes, total_size : Nat, node_size : Nat]

\* What path counts for is what the directory it leads to counts for, if the way
\* there is in S, and nothing otherwise.
WayInv(sh, fr, before) ==
  \A S \in SUBSET Nodes :
    Sizes(sh, S)[<<fr.path, before>>] =
      IF fr.way \subseteq S \cup {Top} THEN Sizes(sh, S)[<<fr.node, fr.left>>] ELSE 0

FrameInv(sh, ev, fr, before) ==
  /\ fr.path \in fr.way /\ fr.node \in fr.way /\ fr.way \subseteq ev \cup {Top}
  /\ fr.list \subseteq ev \cap Kids(sh, fr.node)
  /\ fr.at = "stat" => fr = Call(fr.path, before)
  /\ fr.at # "stat" => sh[fr.node].kind \in {"dir", "locked"}
  /\ fr.at = "scandir" => fr.list = {} /\ fr.total_size = 0
  /\ fr.at = "loop" => sh[fr.node].kind = "dir"
  /\ WayInv(sh, fr, before)

\* Each activation was called for an entry of the directory of the one before, and
\* is further from the first than any with as many calls could be.
ChainInv(sh, fs, i) ==
  /\ i = 1 => fs[i].path = Top /\ fs[i].node = Top /\ fs[i].way = {Top} /\ fs[i].left = Links
  /\ i > 1 => /\ fs[i].path \in Kids(sh, fs[i - 1].node) \ fs[i - 1].list
              /\ fs[i - 1].at = "loop"
  /\ i - 1 <= (Links - fs[i].left) * (MaxNode + 1) + fs[i].node

\* total_size is the size of the entries done, as far as they stayed.
SumInv(sh, al, ev, fs, i) ==
  fs[i].at = "loop" =>
    /\ Safe(al, fs, i) => Part(sh, al, Done(sh, fs, i), fs[i].left) <= fs[i].total_size
    /\ fs[i].total_size <= Part(sh, ev, Done(sh, fs, i), fs[i].left)

FrameAt(sh, al, ev, fs, i) ==
  FrameInv(sh, ev, fs[i], Before(fs, i)) /\ ChainInv(sh, fs, i) /\ SumInv(sh, al, ev, fs, i)

StackInv(sh, al, ev, fs) ==
  fs \in Seq(Frame) /\ \A i \in 1..Len(fs) : FrameAt(sh, al, ev, fs, i)

\* What main has at the end.
ResultInv(sh, al, ev, size) ==
  IF sh[Top].kind = "locked" THEN size = Uninit
  ELSE /\ size \in Nat
       /\ Sizes(sh, al)[<<Top, Links>>] <= size /\ size <= Sizes(sh, ev)[<<Top, Links>>]

\* The inductive invariant.
NsInv ==
  /\ IsShape(shape)
  /\ always \subseteq there /\ there \subseteq ever /\ ever \subseteq Nodes
  /\ StackInv(shape, always, ever, frames)
  /\ IF Finished THEN ResultInv(shape, always, ever, sizee) ELSE sizee = Uninit

LEMMA Depth ==
  ASSUME NEW n \in 0..Links, NEW m \in 0..Links, NEW f \in Files, NEW g \in Files
  PROVE  /\ m < n => (Links - n) * (MaxNode + 1) + f < (Links - m) * (MaxNode + 1) + g + 1
         /\ (Links - n) * (MaxNode + 1) + f < (Links + 1) * (MaxNode + 1)
         /\ (Links - n) * (MaxNode + 1) + f \in Nat
<1> DEFINE K == MaxNode + 1
<1>1. K \in Nat /\ K > 0 /\ Links \in Nat /\ f < K /\ 0 <= g /\ f \in Nat /\ g \in Nat
  BY SizeAssumption DEF Files
<1> HIDE DEF K
<1>2. ASSUME NEW d \in Nat
      PROVE  d * K \in Nat /\ (d > 0 => d * K >= K)
  BY <1>1
<1>3. m < n => (Links - m) * K = (Links - n) * K + (n - m) * K
  BY <1>1
<1>4. (Links + 1) * K = (Links - n) * K + (n + 1) * K
  BY <1>1
<1>5. Links - n \in Nat /\ n + 1 \in Nat /\ n + 1 > 0 /\ (m < n => n - m \in Nat /\ n - m > 0)
  BY <1>1
<1>6. (Links - n) * K \in Nat
  BY <1>2, <1>5
<1>7. m < n => (n - m) * K \in Nat /\ (n - m) * K >= K
  BY <1>2, <1>5
<1>8. (n + 1) * K \in Nat /\ (n + 1) * K >= K
  BY <1>2, <1>5
<1>9. m < n => (Links - n) * K + f < (Links - m) * K + g + 1
  BY <1>1, <1>3, <1>6, <1>7
<1>10. (Links - n) * K + f < (Links + 1) * K
  BY <1>1, <1>4, <1>6, <1>8
<1>11. (Links - n) * K + f \in Nat
  BY <1>1, <1>6
<1> QED
  BY <1>9, <1>10, <1>11 DEF K

\* The activations below the innermost stay as they are.
LEMMA Lower ==
  ASSUME NEW sh, NEW al, NEW ev, NEW fs \in Seq(Frame), NEW gs \in Seq(Frame), NEW i \in 1..Len(fs),
         i < Len(fs), i < Len(gs), \A j \in 1..i : gs[j] = fs[j], gs[i + 1].path = fs[i + 1].path,
         FrameAt(sh, al, ev, fs, i)
  PROVE  FrameAt(sh, al, ev, gs, i)
<1>1. i \in Nat /\ i >= 1 /\ gs[i] = fs[i] /\ (i > 1 => gs[i - 1] = fs[i - 1])
  BY DEF Frame
<1>2. Before(gs, i) = Before(fs, i)
  BY <1>1 DEF Before
<1>3. Done(sh, gs, i) = Done(sh, fs, i)
  BY <1>1 DEF Done
<1>4. Safe(al, gs, i) = Safe(al, fs, i)
  BY <1>1 DEF Safe
<1>5. ChainInv(sh, gs, i)
  BY <1>1 DEF FrameAt, ChainInv
<1>6. SumInv(sh, al, ev, gs, i)
  BY <1>1, <1>3, <1>4 DEF FrameAt, SumInv
<1> QED
  BY <1>1, <1>2, <1>5, <1>6 DEF FrameAt

\* The innermost activation has become fr.
LEMMA Goto ==
  ASSUME NEW sh, NEW al, NEW ev, NEW fs, StackInv(sh, al, ev, fs), fs # <<>>,
         NEW fr \in Frame, NEW gs, gs = [fs EXCEPT ![Len(fs)] = fr],
         fr.path = fs[Len(fs)].path,
         FrameInv(sh, ev, fr, Before(fs, Len(fs))),
         ChainInv(sh, gs, Len(fs)), SumInv(sh, al, ev, gs, Len(fs))
  PROVE  StackInv(sh, al, ev, gs)
<1> DEFINE k == Len(fs)
<1>1. fs \in Seq(Frame) /\ \A i \in 1..k : FrameAt(sh, al, ev, fs, i)
  BY DEF StackInv
<1>2. k \in Nat /\ k >= 1
  BY <1>1
<1>3. gs \in Seq(Frame) /\ Len(gs) = k /\ gs[k] = fr /\ \A j \in 1..k : j # k => gs[j] = fs[j]
  BY <1>1, <1>2
<1>5. k = Len(fs) /\ fr.path = fs[k].path /\ FrameInv(sh, ev, fr, Before(fs, k))
      /\ ChainInv(sh, gs, k) /\ SumInv(sh, al, ev, gs, k)
  OBVIOUS
<1> HIDE DEF k
<1>4. ASSUME NEW i \in 1..k
      PROVE  FrameAt(sh, al, ev, gs, i)
  <2>1. CASE i < k
    <3>1. \A j \in 1..i : gs[j] = fs[j]
      BY <1>2, <1>3, <2>1
    <3>2. gs[i + 1].path = fs[i + 1].path
      <4>1. i + 1 \in 1..k
        BY <1>2, <2>1
      <4>2. i + 1 # k => gs[i + 1] = fs[i + 1]
        BY <1>3, <4>1
      <4> QED
        BY <1>3, <1>5, <4>2
    <3> QED
      BY <1>1, <1>2, <1>3, <1>5, <2>1, <3>1, <3>2, Lower
  <2>2. CASE i = k
    <3>1. k > 1 => gs[k - 1] = fs[k - 1]
      BY <1>2, <1>3
    <3>2. Before(gs, k) = Before(fs, k)
      BY <1>2, <3>1 DEF Before
    <3> QED
      BY <1>3, <1>5, <2>2, <3>2 DEF FrameAt
  <2> QED
    BY <1>2, <2>1, <2>2
<1> QED
  BY <1>3, <1>4 DEF StackInv

\* The innermost activation has returned, and its caller has added v to total_size.
LEMMA Pop ==
  ASSUME NEW sh, IsShape(sh), NEW al, NEW ev, NEW fs, StackInv(sh, al, ev, fs), Len(fs) > 1,
         NEW v \in Nat, NEW gs \in Seq(Frame), Len(gs) = Len(fs) - 1,
         \A j \in 1..(Len(fs) - 2) : gs[j] = fs[j],
         NEW w \in Nat,
         gs[Len(gs)] = [fs[Len(gs)] EXCEPT !.node_size = w, !.total_size = @ + v],
         Safe(al, fs, Len(fs) - 1) =>
           Sizes(sh, al)[<<fs[Len(fs)].path, Before(fs, Len(fs))>>] <= v,
         v <= Sizes(sh, ev)[<<fs[Len(fs)].path, Before(fs, Len(fs))>>]
  PROVE  StackInv(sh, al, ev, gs)
<1> DEFINE k == Len(gs)
           up == fs[k]
           p == fs[k + 1].path
<1>1. fs \in Seq(Frame) /\ \A i \in 1..Len(fs) : FrameAt(sh, al, ev, fs, i)
  BY DEF StackInv
<1>2. k \in Nat /\ k >= 1 /\ Len(fs) = k + 1
  BY <1>1
<1>3. up \in Frame
  BY <1>1, <1>2
<1>4. /\ gs[k] \in Frame /\ gs[k].path = up.path /\ gs[k].node = up.node /\ gs[k].way = up.way
      /\ gs[k].left = up.left /\ gs[k].at = up.at /\ gs[k].list = up.list
      /\ gs[k].total_size = up.total_size + v
  <2> DEFINE g == gs[k]
  <2>1. g = [up EXCEPT !.node_size = w, !.total_size = @ + v]
    OBVIOUS
  <2> HIDE DEF up, g
  <2>2. up.total_size + v \in Nat
    BY <1>3 DEF Frame
  <2>3. /\ g.path = up.path /\ g.node = up.node /\ g.way = up.way
        /\ g.left = up.left /\ g.at = up.at /\ g.list = up.list
        /\ g.total_size = up.total_size + v
    BY <1>3, <2>1 DEF Frame
  <2>4. g \in Frame
    BY <1>3, <2>1, <2>2 DEF Frame
  <2> QED
    BY <2>3, <2>4 DEF g
<1>5. \A j \in 1..k : j < k => gs[j] = fs[j]
  BY <1>2
<1>6. Before(fs, Len(fs)) = up.left
  BY <1>2 DEF Before
<1>7. p \in Kids(sh, up.node) \ up.list /\ up.at = "loop"
  BY <1>1, <1>2 DEF FrameAt, ChainInv
<1>8. ASSUME NEW i \in 1..k, i < k
      PROVE  FrameAt(sh, al, ev, gs, i)
  <2>1. \A j \in 1..i : gs[j] = fs[j]
    BY <1>2, <1>5, <1>8
  <2>2. gs[i + 1].path = fs[i + 1].path
    <3>1. i + 1 \in 1..k
      BY <1>2, <1>8
    <3>2. i + 1 # k => gs[i + 1] = fs[i + 1]
      BY <1>2, <1>5, <3>1
    <3> QED
      BY <1>4, <3>2
  <2>3. i \in 1..Len(fs) /\ i < Len(fs)
    BY <1>2, <1>8
  <2> QED
    BY <1>1, <1>8, <2>1, <2>2, <2>3, Lower
<1>9. FrameAt(sh, al, ev, gs, k)
  <2>0. FrameAt(sh, al, ev, fs, k)
    BY <1>1, <1>2
  <2>1. k > 1 => gs[k - 1] = fs[k - 1]
    BY <1>2, <1>5
  <2>2. Before(gs, k) = Before(fs, k)
    BY <1>2, <2>1 DEF Before
  <2>3. FrameInv(sh, ev, gs[k], Before(fs, k))
    BY <1>4, <1>7, <2>0 DEF FrameAt, FrameInv, WayInv
  <2>4. ChainInv(sh, gs, k)
    BY <1>2, <1>4, <2>0, <2>1 DEF FrameAt, ChainInv
  <2>5. SumInv(sh, al, ev, gs, k)
    <3> DEFINE D == Done(sh, fs, k)
               n == up.left
               part(S, E) == Part(sh, S, E, n)
               s(S) == Sizes(sh, S)[<<p, n>>]
    <3>1. n \in 0..Links /\ up.total_size \in Nat
      BY <1>3 DEF Frame
    <3>2. p \in Nodes /\ p \in Files
      BY <1>7, SizeAssumption DEF Kids, Nodes, Files
    <3>3. Done(sh, gs, k) = D \cup {p} /\ p \notin D
      BY <1>2, <1>4, <1>7 DEF Done
    <3>4. Safe(al, gs, k) = Safe(al, fs, k)
      <4>1. ASSUME NEW j \in 1..k
            PROVE  gs[j].way = fs[j].way
        <5>1. j # k => gs[j] = fs[j]
          BY <1>2, <1>5
        <5> QED
          BY <1>4, <5>1
      <4> QED
        BY <4>1 DEF Safe
    <3>5. \A S : part(S, D \cup {p}) = part(S, D) + s(S)
      <4> HIDE DEF D, p, n
      <4> QED
        BY <3>1, <3>2, <3>3, PartAdd
    <3>6. \A S : part(S, D) \in Nat /\ s(S) \in Nat
      <4> HIDE DEF D, p, n
      <4> QED
        BY <3>1, <3>2, PartFacts, SizesNat
    <3>7. /\ Safe(al, fs, k) => part(al, D) <= up.total_size
          /\ up.total_size <= part(ev, D)
      BY <1>7, <2>0 DEF FrameAt, SumInv
    <3>8. (Safe(al, fs, k) => s(al) <= v) /\ v <= s(ev)
      BY <1>2, <1>6
    <3> HIDE DEF part, s
    <3>9. /\ Safe(al, fs, k) => part(al, D) + s(al) <= up.total_size + v
          /\ up.total_size + v <= part(ev, D) + s(ev)
      BY <3>1, <3>6, <3>7, <3>8
    <3>10. /\ Safe(al, fs, k) => part(al, D \cup {p}) <= up.total_size + v
           /\ up.total_size + v <= part(ev, D \cup {p})
      BY <3>5, <3>9
    <3> QED
      BY <1>4, <3>3, <3>4, <3>10 DEF SumInv, part
  <2> QED
    BY <2>2, <2>3, <2>4, <2>5 DEF FrameAt
<1>10. \A i \in 1..k : FrameAt(sh, al, ev, gs, i)
  BY <1>2, <1>8, <1>9
<1> QED
  BY <1>10 DEF StackInv

\* Files are created and removed.
LEMMA Changes ==
  ASSUME NEW sh, IsShape(sh), NEW al, NEW ev, NEW fs, StackInv(sh, al, ev, fs),
         NEW am, NEW ew, am \subseteq al, ev \subseteq ew
  PROVE  StackInv(sh, am, ew, fs)
<1>1. fs \in Seq(Frame)
  BY DEF StackInv
<1>2. ASSUME NEW i \in 1..Len(fs)
      PROVE  FrameAt(sh, am, ew, fs, i)
  <2>1. FrameAt(sh, al, ev, fs, i) /\ fs[i] \in Frame
    BY DEF StackInv
  <2>2. FrameInv(sh, ew, fs[i], Before(fs, i))
    BY <2>1 DEF FrameAt, FrameInv
  <2>3. SumInv(sh, am, ew, fs, i)
    <3> SUFFICES ASSUME fs[i].at = "loop"
                 PROVE  /\ Safe(am, fs, i) =>
                             Part(sh, am, Done(sh, fs, i), fs[i].left) <= fs[i].total_size
                        /\ fs[i].total_size <= Part(sh, ew, Done(sh, fs, i), fs[i].left)
      BY DEF SumInv
    <3> DEFINE D == Done(sh, fs, i)
               n == fs[i].left
    <3>1. n \in 0..Links /\ fs[i].total_size \in Nat
      BY <2>1 DEF Frame
    <3>2. Part(sh, am, D, n) <= Part(sh, al, D, n) /\ Part(sh, ev, D, n) <= Part(sh, ew, D, n)
      <4> HIDE DEF D, n
      <4> QED
        BY <3>1, PartMonotone
    <3>3. \A S : Part(sh, S, D, n) \in Nat
      <4> HIDE DEF D, n
      <4> QED
        BY <3>1, PartFacts
    <3>4. Safe(am, fs, i) => Safe(al, fs, i)
      BY DEF Safe
    <3>5. /\ Safe(al, fs, i) => Part(sh, al, D, n) <= fs[i].total_size
          /\ fs[i].total_size <= Part(sh, ev, D, n)
      BY <2>1 DEF FrameAt, SumInv
    <3> QED
      BY <3>1, <3>2, <3>3, <3>4, <3>5
  <2> QED
    BY <2>1, <2>2, <2>3 DEF FrameAt
<1> QED
  BY <1>1, <1>2 DEF StackInv

LEMMA NsInvInit == NsInit => NsInv
<1> SUFFICES ASSUME NsInit PROVE NsInv
  OBVIOUS
<1>1. PICK files \in [Nodes -> Places], k \in {"dir", "locked"} :
        shape = [f \in Files |-> IF f = Top THEN [kind |-> k, parent |-> Top, target |-> Top]
                                 ELSE files[f]]
  BY DEF NsInit
<1>2. Top \in Files /\ Nodes \subseteq Files /\ \A f \in Files : f # Top => f \in Nodes
  BY SizeAssumption DEF Files, Nodes, Top
<1>3. \A f \in Nodes : f # Top /\ shape[f] = files[f] /\ files[f] \in Places
  BY <1>1, <1>2 DEF Nodes, Top
<1>4. shape[Top] = [kind |-> k, parent |-> Top, target |-> Top]
  BY <1>1, <1>2
<1>5. IsShape(shape)
  <2>1. \A f \in Nodes :
          shape[f].kind \in Kinds /\ shape[f].parent \in Files /\ shape[f].target \in Files
    BY <1>3 DEF Places
  <2>2. shape[Top].kind \in {"dir", "locked"} /\ shape[Top].parent = Top /\ shape[Top].target = Top
    BY <1>4
  <2>3. \A f \in Nodes : shape[f].parent < f
    BY DEF NsInit, Parent
  <2> QED
    BY <1>2, <2>1, <2>2, <2>3 DEF IsShape, Kinds
<1>6. always \subseteq there /\ there \subseteq ever /\ ever \subseteq Nodes
  BY DEF NsInit
<1>7. frames = <<Call(Top, Links)>> /\ frames # <<>> /\ sizee = Uninit
  BY DEF NsInit
<1> DEFINE fr == Call(Top, Links)
<1>8. /\ fr \in Frame /\ fr.path = Top /\ fr.node = Top /\ fr.way = {Top} /\ fr.left = Links
      /\ fr.at = "stat" /\ fr.list = {}
  BY <1>2, SizeAssumption DEF Call, Frame
<1>9. Len(frames) = 1 /\ frames[1] = fr /\ frames \in Seq(Frame)
  BY <1>7, <1>8
<1>10. FrameAt(shape, always, ever, frames, 1)
  <2>1. Before(frames, 1) = Links
    BY DEF Before
  <2> HIDE DEF fr
  <2>2. FrameInv(shape, ever, fr, Links)
    BY <1>8 DEF FrameInv, WayInv, fr
  <2>3. ChainInv(shape, frames, 1)
    <3>1. 1 - 1 <= (Links - Links) * (MaxNode + 1) + Top
      BY SizeAssumption DEF Top
    <3> QED
      BY <1>8, <1>9, <3>1 DEF ChainInv
  <2>4. SumInv(shape, always, ever, frames, 1)
    BY <1>8, <1>9 DEF SumInv
  <2> QED
    BY <1>9, <2>1, <2>2, <2>3, <2>4 DEF FrameAt
<1>11. StackInv(shape, always, ever, frames)
  BY <1>9, <1>10 DEF StackInv
<1> QED
  BY <1>5, <1>6, <1>7, <1>11 DEF NsInv, Finished

\* The innermost activation returns a size between what its path counts for.
LEMMA Returned ==
  ASSUME NsInv, ~Finished, UNCHANGED <<shape, there, always, ever>>,
         NEW code \in Int, NEW size \in Nat, NsReturn(code, size),
         NEW v \in Nat, v = IF code = 0 THEN size ELSE 0,
         Safe(always, frames, Len(frames) - 1) =>
           Sizes(shape, always)[<<Now.path, Before(frames, Len(frames))>>] <= v,
         v <= Sizes(shape, ever)[<<Now.path, Before(frames, Len(frames))>>],
         Len(frames) = 1 => (code = 0 <=> Kind(Top) # "locked")
  PROVE  NsInv'
<1>1. /\ IsShape(shape) /\ StackInv(shape, always, ever, frames) /\ sizee = Uninit
      /\ frames \in Seq(Frame) /\ frames # <<>>
      /\ \A i \in 1..Len(frames) : FrameAt(shape, always, ever, frames, i)
  BY DEF NsInv, StackInv, Finished
<1>2. Len(frames) \in Nat /\ Len(frames) >= 1
  BY <1>1
<1>3. CASE Len(frames) = 1
  <2>1. frames' = <<>> /\ sizee' = IF code = 0 THEN size ELSE sizee
    BY <1>3 DEF NsReturn
  <2>2. Now.path = Top /\ Before(frames, Len(frames)) = Links
    BY <1>1, <1>3 DEF FrameAt, ChainInv, Now, Before
  <2>3. Safe(always, frames, Len(frames) - 1)
    BY <1>3 DEF Safe
  <2>4. ResultInv(shape, always, ever, sizee')
    BY <1>1, <1>3, <2>1, <2>2, <2>3 DEF ResultInv, Kind
  <2>5. StackInv(shape, always, ever, frames')
    <3>1. frames' \in Seq(Frame) /\ Len(frames') = 0
      BY <2>1
    <3> QED
      BY <3>1 DEF StackInv
  <2> QED
    BY <1>1, <2>1, <2>4, <2>5 DEF NsInv, Finished
<1>4. CASE Len(frames) > 1
  <2> DEFINE k == Len(frames) - 1
             gs == frames'
             w == IF code = 0 THEN size ELSE frames[k].node_size
  <2>1. /\ sizee' = sizee
        /\ gs = [i \in 1..k |->
                  IF i < k \/ code # 0 THEN frames[i]
                  ELSE [frames[i] EXCEPT !.node_size = size, !.total_size = @ + size]]
    <3>1. Len(frames) # 1
      <4> DEFINE n == Len(frames)
      <4>1. n > 1 /\ n \in Nat
        BY <1>2, <1>4
      <4> HIDE DEF n
      <4>2. n # 1
        BY <4>1
      <4> QED
        BY <4>2 DEF n
    <3> QED
      BY <3>1 DEF NsReturn
  <2>2. k \in Nat /\ k \in 1..Len(frames) /\ frames[k] \in Frame
    BY <1>1, <1>2, <1>4
  <2>3. \A i \in 1..k : frames[i] \in Frame
    BY <1>1, <1>2, <1>4
  <2>4. [frames[k] EXCEPT !.node_size = size, !.total_size = @ + size] \in Frame
    <3> DEFINE up == frames[k]
    <3>1. up \in Frame
      BY <2>2
    <3> HIDE DEF up
    <3>2. up.total_size + size \in Nat
      BY <3>1 DEF Frame
    <3>3. [up EXCEPT !.node_size = size, !.total_size = @ + size] \in Frame
      BY <3>1, <3>2 DEF Frame
    <3> QED
      BY <3>3 DEF up
  <2>5. gs \in [1..k -> Frame]
    <3>1. ASSUME NEW i \in 1..k, ~(i < k)
          PROVE  i = k
      BY <2>2, <3>1
    <3> QED
      BY <2>1, <2>3, <2>4, <3>1
  <2>6. gs \in Seq(Frame) /\ Len(gs) = k
    BY <2>2, <2>5
  <2>7. \A j \in 1..(Len(frames) - 2) : gs[j] = frames[j]
    <3>1. ASSUME NEW j \in 1..(Len(frames) - 2)
          PROVE  j \in 1..k /\ j < k
      BY <1>2, <1>4
    <3> HIDE DEF k
    <3> QED
      BY <2>1, <3>1
  <2>8. w \in Nat /\ v \in Nat
    BY <2>2 DEF Frame
  <2>9. gs[k] = [frames[k] EXCEPT !.node_size = w, !.total_size = @ + v]
    <3> DEFINE up == frames[k]
    <3>1. up \in Frame /\ k \in 1..k
      BY <1>4, <2>2
    <3>2. gs[k] = IF code # 0 THEN up
                  ELSE [up EXCEPT !.node_size = size, !.total_size = @ + size]
      <4>1. ~(k < k)
        BY <2>2
      <4> HIDE DEF k
      <4> QED
        BY <2>1, <3>1, <4>1
    <3> HIDE DEF up, k, gs
    <3>3. up.total_size \in Nat
      BY <3>1 DEF Frame
    <3>4. [up EXCEPT !.node_size = up.node_size, !.total_size = @ + 0] = up
      <4>1. up.total_size + 0 = up.total_size
        BY <3>3
      <4> QED
        BY <3>1, <4>1 DEF Frame
    <3>5. CASE code # 0
      BY <3>2, <3>4, <3>5 DEF up
    <3>6. CASE code = 0
      BY <3>2, <3>6 DEF up
    <3> QED
      BY <3>5, <3>6
  <2>10. /\ Safe(always, frames, k) =>
              Sizes(shape, always)[<<frames[Len(frames)].path, Before(frames, Len(frames))>>] <= v
         /\ v <= Sizes(shape, ever)[<<frames[Len(frames)].path, Before(frames, Len(frames))>>]
    BY DEF Now
  <2> HIDE DEF w, gs
  <2>11. StackInv(shape, always, ever, gs)
    BY <1>1, <1>4, <2>6, <2>7, <2>8, <2>9, <2>10, Pop
  <2>12. gs # <<>>
    BY <1>4, <2>6
  <2> QED
    BY <1>1, <2>1, <2>11, <2>12 DEF NsInv, Finished, gs
<1>5. Len(frames) = 1 \/ Len(frames) > 1
  <2> DEFINE n == Len(frames)
  <2>1. n >= 1 /\ n \in Nat
    BY <1>2
  <2> HIDE DEF n
  <2>2. n = 1 \/ n > 1
    BY <2>1
  <2> QED
    BY <2>2 DEF n
<1> QED
  BY <1>3, <1>4, <1>5

\* The innermost activation.
LEMMA Innermost ==
  ASSUME NsInv, ~Finished
  PROVE  /\ Len(frames) \in Nat \ {0} /\ Now \in Frame
         /\ FrameAt(shape, always, ever, frames, Len(frames))
         /\ Before(frames, Len(frames)) \in 0..Links
         /\ Len(frames) = 1 =>
              Now.path = Top /\ Now.node = Top /\ Now.way = {Top} /\ Now.left = Links
<1> DEFINE k == Len(frames)
<1>1. frames \in Seq(Frame) /\ frames # <<>> /\ \A i \in 1..k : FrameAt(shape, always, ever, frames, i)
  BY DEF NsInv, StackInv, Finished
<1>2. k \in Nat \ {0} /\ k \in 1..k /\ frames[k] \in Frame
  BY <1>1
<1>3. FrameAt(shape, always, ever, frames, k)
  BY <1>1, <1>2
<1>4. k # 1 => k - 1 \in 1..k
  <2> HIDE DEF k
  <2> QED
    BY <1>2
<1>5. k # 1 => frames[k - 1].left \in 0..Links
  <2>1. k # 1 => frames[k - 1] \in Frame
    BY <1>1, <1>4
  <2> QED
    BY <2>1 DEF Frame
<1>6. Before(frames, k) \in 0..Links
  BY <1>5, SizeAssumption DEF Before
<1> QED
  BY <1>2, <1>3, <1>6 DEF FrameAt, ChainInv, Now

\* A path that is not there counts for nothing, unless a shorter one is not there.
LEMMA NotWhole ==
  ASSUME NsInv, ~Finished, ~Whole
  PROVE  /\ Len(frames) # 1
         /\ Safe(always, frames, Len(frames) - 1) =>
              Sizes(shape, always)[<<Now.path, Before(frames, Len(frames))>>] = 0
<1> DEFINE k == Len(frames)
<1>1. k \in Nat \ {0} /\ FrameAt(shape, always, ever, frames, k) /\ (k = 1 => Now.way = {Top})
  BY Innermost
<1>2. always \subseteq there /\ always \subseteq Nodes
  BY DEF NsInv
<1>3. PICK i \in 1..k : ~(frames[i].way \subseteq there \cup {Top})
  BY DEF Whole
<1>4. Now = frames[k]
  BY DEF Now
<1> HIDE DEF k
<1>5. k # 1
  <2> SUFFICES ASSUME k = 1 PROVE FALSE
    OBVIOUS
  <2>1. i = k
    BY <1>1, <1>3
  <2> QED
    BY <1>1, <1>3, <1>4, <2>1
<1>6. ASSUME Safe(always, frames, k - 1)
      PROVE  Sizes(shape, always)[<<Now.path, Before(frames, k)>>] = 0
  <2>1. i \in 1..(k - 1) => frames[i].way \subseteq there \cup {Top}
    BY <1>2, <1>6 DEF Safe
  <2>2. i = k
    BY <1>1, <1>3, <2>1
  <2>3. ~(frames[k].way \subseteq always \cup {Top})
    BY <1>2, <1>3, <2>2
  <2>4. WayInv(shape, frames[k], Before(frames, k))
    BY <1>1 DEF FrameAt, FrameInv
  <2> QED
    BY <1>2, <1>4, <2>3, <2>4 DEF WayInv
<1> QED
  BY <1>5, <1>6 DEF k

\* stat.
LEMMA StatKept ==
  ASSUME NsInv, NsStat
  PROVE  NsInv'
<1> DEFINE k == Len(frames)
           p == Now.path
           n == Now.left
           before == Before(frames, k)
           s(S, x, m) == Sizes(shape, S)[<<x, m>>]
           to == Follow[Now.left][Now.path]
<1>1. /\ k \in Nat \ {0} /\ Now \in Frame /\ FrameAt(shape, always, ever, frames, k)
      /\ before \in 0..Links /\ (k = 1 => p = Top) /\ ~Finished /\ Now.at = "stat"
      /\ UNCHANGED <<shape, there, always, ever>> /\ Now = frames[k]
  BY Innermost DEF NsStat, NsAt, Now
<1>2. /\ IsShape(shape) /\ always \subseteq there /\ there \subseteq ever /\ ever \subseteq Nodes
  BY DEF NsInv
<1>3. Now = Call(p, before) /\ p \in Files
  <2>1. FrameInv(shape, ever, Now, before)
    BY <1>1 DEF FrameAt
  <2> QED
    BY <1>1, <2>1 DEF FrameInv, Frame
<1>4. n = before /\ n \in 0..Links
  BY <1>1, <1>3 DEF Call
<1>5. Ends(n, p, to)
  BY <1>2, <1>3, <1>4, FollowEnds
<1>6. \A S : s(S, p, before) \in Nat
  BY <1>1, <1>2, <1>3, SizesNat
<1>7. CASE (~Whole \/ to = {}) /\ NsReturn(-1, 0)
  <2>1. /\ k # 1
        /\ Safe(always, frames, k - 1) => s(always, p, before) = 0
    <3>1. CASE ~Whole
      BY <1>1, <3>1, NotWhole
    <3>2. CASE to = {}
      <4> HIDE DEF to, k, n, before
      <4>1. p = Top => to # {}
        BY <1>5 DEF Ends
      <4>2. s(always, p, n) = 0
        BY <1>2, <1>5, <3>2 DEF Ends
      <4> QED
        BY <1>1, <1>4, <3>2, <4>1, <4>2
    <3> QED
      BY <1>7, <3>1, <3>2
  <2> DEFINE v == 0
  <2>2. /\ Safe(always, frames, k - 1) => s(always, p, before) <= v
        /\ v <= s(ever, p, before)
        /\ k = 1 => (-1 = 0 <=> Kind(Top) # "locked")
    BY <1>6, <2>1
  <2>3. v = IF -1 = 0 THEN 0 ELSE 0
    OBVIOUS
  <2>4. v \in Nat /\ -1 \in Int /\ 0 \in Nat
    OBVIOUS
  <2> HIDE DEF v
  <2> QED
    BY <1>1, <1>7, <2>2, <2>3, <2>4, Returned
<1>8. ASSUME Whole, NEW r \in to
      PROVE  /\ r.node \in Files /\ r.left \in 0..Links /\ r.way \in SUBSET Files
             /\ p \in r.way /\ r.node \in r.way /\ r.way \subseteq ever \cup {Top}
             /\ r.left <= n /\ (r.left = n => r.node = p)
             /\ \A S \in SUBSET Nodes :
                  s(S, p, before) =
                    IF r.way \subseteq S \cup {Top} THEN s(S, r.node, r.left) ELSE 0
             /\ k = 1 => r.node = Top /\ r.left = before /\ r.way = {Top}
  <2> HIDE DEF to, s
  <2>1. /\ r \in [node : Files, left : 0..Links, way : SUBSET Files]
        /\ p \in r.way /\ r.node \in r.way /\ r.way \subseteq there \cup {Top}
        /\ r.left <= n /\ (r.left = n => r.node = p)
    BY <1>5, <1>8 DEF Ends
  <2>2. \A S \in SUBSET Nodes :
          s(S, p, n) = IF r.way \subseteq S \cup {Top} THEN s(S, r.node, r.left) ELSE 0
    BY <1>5, <1>8 DEF Ends, s
  <2>3. k = 1 => r = [node |-> Top, left |-> n, way |-> {Top}]
    BY <1>1, <1>5, <1>8 DEF Ends
  <2> HIDE DEF n, before
  <2> QED
    BY <1>2, <1>4, <2>1, <2>2, <2>3
<1>9. ASSUME Whole, NEW r \in to,
             \/ Kind(r.node) = "reg" /\ NsReturn(0, st_size[r.node])
             \/ Kind(r.node) = "special" /\ NsReturn(-1, 0)
      PROVE  NsInv'
  <2> DEFINE v == IF Kind(r.node) = "reg" THEN st_size[r.node] ELSE 0
  <2>1. Kind(r.node) = "reg" => r.node \in Nodes /\ st_size[r.node] \in Nat
    <3>1. Kind(Top) # "reg"
      BY <1>2 DEF IsShape, Kind
    <3>2. Kind(r.node) = "reg" => r.node \in Nodes
      <4>1. r.node \in Files
        BY <1>8, <1>9
      <4>2. \A f \in Files : f # Top => f \in Nodes
        BY SizeAssumption DEF Files, Nodes, Top
      <4> QED
        BY <3>1, <4>1, <4>2
    <3> QED
      BY <3>2, SizeAssumption
  <2>2. v \in Nat
    BY <2>1
  <2>3. \A S : r.node \in S \cup {Top} => s(S, r.node, r.left) = v
    <3> TAKE S
    <3>1. r.node \in Files /\ r.left \in 0..Links
      BY <1>8, <1>9
    <3> DEFINE f == r.node
               m == r.left
    <3> HIDE DEF f, m
    <3>2. f \in Files /\ m \in 0..Links /\ IsShape(shape)
      BY <1>2, <3>1 DEF f, m
    <3>3. /\ f \in S \cup {Top} /\ shape[f].kind = "reg" => s(S, f, m) = st_size[f]
          /\ shape[f].kind \in {"locked", "special"} => s(S, f, m) = 0
      BY <3>2, SizeCases
    <3> QED
      BY <1>9, <3>3 DEF f, m, Kind
  <2>4. k # 1
    <3>1. k = 1 => Kind(Top) \in {"reg", "special"}
      BY <1>8, <1>9
    <3> QED
      BY <1>2, <3>1 DEF IsShape, Kind
  <2> HIDE DEF v
  <2>5. s(always, p, before) <= v
    <3>1. r.way \subseteq always \cup {Top} => s(always, p, before) = v
      BY <1>2, <1>8, <1>9, <2>3
    <3>2. ~(r.way \subseteq always \cup {Top}) => s(always, p, before) = 0
      BY <1>2, <1>8, <1>9
    <3> QED
      BY <2>2, <3>1, <3>2
  <2>6. v <= s(ever, p, before)
    <3>1. s(ever, p, before) = v
      BY <1>2, <1>8, <1>9, <2>3
    <3> QED
      BY <2>2, <3>1
  <2>7. CASE Kind(r.node) = "reg" /\ NsReturn(0, st_size[r.node])
    <3>1. v = IF 0 = 0 THEN st_size[r.node] ELSE 0
      BY <2>7 DEF v
    <3> QED
      BY <1>1, <2>1, <2>2, <2>4, <2>5, <2>6, <2>7, <3>1, Returned
  <2>8. CASE Kind(r.node) = "special" /\ NsReturn(-1, 0)
    <3>1. v = (IF -1 = 0 THEN 0 ELSE 0) /\ -1 \in Int /\ 0 \in Nat
      BY <2>8 DEF v
    <3> QED
      BY <1>1, <2>2, <2>4, <2>5, <2>6, <2>8, <3>1, Returned
  <2> QED
    BY <1>9, <2>7, <2>8
<1>10. ASSUME Whole, NEW r \in to, Kind(r.node) \in {"dir", "locked"},
              NsGoto([Now EXCEPT !.at = "scandir", !.node = r.node, !.way = r.way,
                                 !.left = r.left])
       PROVE  NsInv'
  <2> DEFINE fr == [Now EXCEPT !.at = "scandir", !.node = r.node, !.way = r.way, !.left = r.left]
             gs == [frames EXCEPT ![k] = fr]
  <2>1. gs = frames' /\ sizee' = sizee
    BY <1>10 DEF NsGoto
  <2>2. /\ r.node \in Files /\ r.left \in 0..Links /\ r.way \in SUBSET Files
        /\ p \in r.way /\ r.node \in r.way /\ r.way \subseteq ever \cup {Top}
        /\ r.left <= n /\ (r.left = n => r.node = p)
        /\ k = 1 => r.node = Top /\ r.left = before /\ r.way = {Top}
    BY <1>8, <1>10
  <2>3. /\ fr \in Frame /\ fr.path = p /\ fr.at = "scandir" /\ fr.node = r.node
        /\ fr.way = r.way /\ fr.left = r.left /\ fr.list = {} /\ fr.total_size = 0
    <3> DEFINE now == Now
    <3>1. now \in Frame /\ now.list = {} /\ now.total_size = 0 /\ now.path = p
      BY <1>1, <1>3 DEF Call
    <3> HIDE DEF now
    <3>2. fr = [now EXCEPT !.at = "scandir", !.node = r.node, !.way = r.way, !.left = r.left]
      BY DEF now
    <3> HIDE DEF fr, p
    <3> QED
      BY <2>2, <3>1, <3>2 DEF Frame
  <2> HIDE DEF fr
  <2>4. FrameInv(shape, ever, fr, before)
    <3>1. WayInv(shape, fr, before)
      BY <1>8, <1>10, <2>3 DEF WayInv
    <3> QED
      BY <1>10, <2>2, <2>3, <3>1 DEF FrameInv, Kind
  <2>5. frames \in Seq(Frame) /\ frames # <<>> /\ StackInv(shape, always, ever, frames)
    BY <1>1 DEF NsInv, StackInv, Finished
  <2>6. gs \in Seq(Frame) /\ gs[k] = fr /\ Len(gs) = k /\ (k > 1 => gs[k - 1] = frames[k - 1])
    BY <1>1, <2>3, <2>5
  <2> HIDE DEF gs
  <2>7. ChainInv(shape, gs, k)
    <3>1. k - 1 <= (Links - n) * (MaxNode + 1) + p
      BY <1>1, <1>3 DEF FrameAt, ChainInv, Call
    <3>2. k - 1 <= (Links - r.left) * (MaxNode + 1) + r.node
      <4>1. CASE r.left = n
        BY <2>2, <3>1, <4>1
      <4>2. CASE r.left < n
        <5>1. (Links - n) * (MaxNode + 1) + p < (Links - r.left) * (MaxNode + 1) + r.node + 1
          BY <1>3, <1>4, <2>2, <4>2, Depth
        <5>2. (Links - n) * (MaxNode + 1) + p \in Nat /\ (Links - r.left) * (MaxNode + 1) + r.node \in Nat
          BY <1>3, <1>4, <2>2, Depth
        <5> QED
          BY <1>1, <3>1, <5>1, <5>2
      <4>3. r.left = n \/ r.left < n
        BY <1>4, <2>2, SizeAssumption
      <4> QED
        BY <4>1, <4>2, <4>3
    <3>3. k > 1 => p \in Kids(shape, frames[k - 1].node) \ frames[k - 1].list /\ frames[k - 1].at = "loop"
      BY <1>1 DEF FrameAt, ChainInv
    <3>4. k = 1 => before = Links
      BY DEF Before
    <3> HIDE DEF k, before
    <3> QED
      BY <1>1, <2>2, <2>3, <2>6, <3>2, <3>3, <3>4 DEF ChainInv
  <2>8. SumInv(shape, always, ever, gs, k)
    BY <2>3, <2>6 DEF SumInv
  <2>9. fr.path = frames[k].path
    BY <1>1, <2>3
  <2>10. StackInv(shape, always, ever, gs)
    BY <2>3, <2>4, <2>5, <2>7, <2>8, <2>9, Goto DEF gs
  <2>11. gs # <<>> /\ sizee = Uninit
    <3>1. sizee = Uninit
      BY <1>1 DEF NsInv
    <3> QED
      BY <1>1, <2>6, <3>1
  <2> QED
    BY <1>1, <1>2, <2>1, <2>10, <2>11 DEF NsInv, Finished
<1> QED
  <2>1. \/ (~Whole \/ to = {}) /\ NsReturn(-1, 0)
        \/ /\ Whole
           /\ \E r \in to :
                \/ Kind(r.node) = "reg" /\ NsReturn(0, st_size[r.node])
                \/ Kind(r.node) = "special" /\ NsReturn(-1, 0)
                \/ /\ Kind(r.node) \in {"dir", "locked"}
                   /\ NsGoto([Now EXCEPT !.at = "scandir", !.node = r.node, !.way = r.way,
                                         !.left = r.left])
    BY DEF NsStat
  <2> QED
    BY <1>7, <1>9, <1>10, <2>1

\* scandir.
LEMMA ScandirKept ==
  ASSUME NsInv, NsScandir
  PROVE  NsInv'
<1> DEFINE k == Len(frames)
           before == Before(frames, k)
           s(S, x, m) == Sizes(shape, S)[<<x, m>>]
<1>1. /\ k \in Nat \ {0} /\ Now \in Frame /\ FrameAt(shape, always, ever, frames, k)
      /\ before \in 0..Links /\ (k = 1 => Now.node = Top) /\ ~Finished /\ Now.at = "scandir"
      /\ UNCHANGED <<shape, there, always, ever>> /\ Now = frames[k]
  BY Innermost DEF NsScandir, NsAt, Now
<1>2. /\ IsShape(shape) /\ always \subseteq there /\ there \subseteq ever /\ ever \subseteq Nodes
  BY DEF NsInv
<1>3. /\ Now.path \in Files /\ Now.node \in Files /\ Now.left \in 0..Links
      /\ Now.total_size = 0 /\ Now.list = {}
      /\ FrameInv(shape, ever, Now, before) /\ ChainInv(shape, frames, k)
  <2>1. FrameInv(shape, ever, Now, before) /\ ChainInv(shape, frames, k)
    BY <1>1 DEF FrameAt
  <2> QED
    BY <1>1, <2>1 DEF FrameInv, Frame
<1>4. CASE Whole /\ Kind(Now.node) = "dir"
           /\ NsGoto([Now EXCEPT !.at = "loop", !.list = Entries(Now.node)])
  <2> DEFINE list == Entries(Now.node)
             fr == [Now EXCEPT !.at = "loop", !.list = list]
             gs == [frames EXCEPT ![k] = fr]
  <2>1. gs = frames' /\ sizee' = sizee
    BY <1>4 DEF NsGoto
  <2>2. list \in SUBSET Nodes /\ list \subseteq ever \cap Kids(shape, Now.node)
    BY <1>2 DEF Entries, Kids, Parent
  <2>3. /\ fr \in Frame /\ fr.path = Now.path /\ fr.at = "loop" /\ fr.node = Now.node
        /\ fr.way = Now.way /\ fr.left = Now.left /\ fr.list = list /\ fr.total_size = 0
    <3> DEFINE now == Now
    <3>1. now \in Frame /\ now.total_size = 0
      BY <1>1, <1>3
    <3> HIDE DEF now, list
    <3>2. fr = [now EXCEPT !.at = "loop", !.list = list]
      BY DEF now
    <3>3. /\ fr \in Frame /\ fr.path = now.path /\ fr.at = "loop" /\ fr.node = now.node
          /\ fr.way = now.way /\ fr.left = now.left /\ fr.list = list /\ fr.total_size = 0
      <4> HIDE DEF fr
      <4> QED
        BY <2>2, <3>1, <3>2 DEF Frame
    <3> QED
      BY <3>3 DEF now
  <2> HIDE DEF fr
  <2>4. FrameInv(shape, ever, fr, before)
    <3>1. WayInv(shape, fr, before)
      BY <1>3, <2>3 DEF FrameInv, WayInv
    <3> HIDE DEF list
    <3> QED
      BY <1>3, <1>4, <2>2, <2>3, <3>1 DEF FrameInv, Kind
  <2>5. frames \in Seq(Frame) /\ frames # <<>> /\ StackInv(shape, always, ever, frames)
    BY <1>1 DEF NsInv, StackInv, Finished
  <2>6. gs \in Seq(Frame) /\ gs[k] = fr /\ Len(gs) = k /\ (k > 1 => gs[k - 1] = frames[k - 1])
    BY <1>1, <2>3, <2>5
  <2> HIDE DEF gs
  <2>7. ChainInv(shape, gs, k)
    <3> HIDE DEF k
    <3> QED
      BY <1>1, <1>3, <2>3, <2>6 DEF ChainInv
  <2>8. SumInv(shape, always, ever, gs, k)
    <3> DEFINE D == Done(shape, gs, k)
               n == fr.left
    <3>1. D = Kids(shape, Now.node) \ list
      BY <2>3, <2>6 DEF Done
    <3>2. \A g \in D \cap Nodes : g \notin always
      BY <1>2, <3>1 DEF Entries, Kids, Parent
    <3>3. n \in 0..Links
      BY <1>3, <2>3
    <3> HIDE DEF D, n
    <3>4. Part(shape, always, D, n) = 0 /\ Part(shape, ever, D, n) \in Nat
      BY <1>2, <3>2, <3>3, PartZero, PartFacts
    <3> QED
      BY <2>3, <2>6, <3>4 DEF SumInv, D, n
  <2>9. fr.path = frames[k].path
    BY <1>1, <2>3
  <2>10. StackInv(shape, always, ever, gs)
    BY <2>3, <2>4, <2>5, <2>7, <2>8, <2>9, Goto DEF gs
  <2>11. gs # <<>> /\ sizee = Uninit
    <3>1. sizee = Uninit
      BY <1>1 DEF NsInv
    <3> QED
      BY <1>1, <2>6, <3>1
  <2> QED
    BY <1>1, <1>2, <2>1, <2>10, <2>11 DEF NsInv, Finished
<1>5. CASE (~Whole \/ Kind(Now.node) = "locked") /\ NsReturn(-1, 0)
  <2> DEFINE v == 0
  <2>1. Safe(always, frames, k - 1) => s(always, Now.path, before) = 0
    <3>1. CASE ~Whole
      BY <1>1, <3>1, NotWhole
    <3>2. CASE Kind(Now.node) = "locked"
      <4>1. s(always, Now.node, Now.left) = 0
        <5> DEFINE f == Now.node
                   m == Now.left
        <5>1. f \in Files /\ m \in 0..Links /\ IsShape(shape) /\ shape[f].kind = "locked"
          BY <1>2, <1>3, <3>2 DEF Kind
        <5> HIDE DEF f, m
        <5>2. s(always, f, m) = 0
          BY <5>1, SizeCases
        <5> QED
          BY <5>2 DEF f, m
      <4>2. always \in SUBSET Nodes
        BY <1>2
      <4> HIDE DEF before
      <4> QED
        BY <1>3, <4>1, <4>2 DEF FrameInv, WayInv
    <3> QED
      BY <1>5, <3>1, <3>2
  <2>2. k = 1 => Kind(Top) = "locked"
    <3>1. ~Whole => k # 1
      BY <1>1, NotWhole
    <3> QED
      BY <1>1, <1>5, <3>1
  <2>3. s(ever, Now.path, before) \in Nat
    BY <1>1, <1>2, <1>3, SizesNat
  <2>4. /\ Safe(always, frames, k - 1) => s(always, Now.path, before) <= v
        /\ v <= s(ever, Now.path, before)
        /\ k = 1 => (-1 = 0 <=> Kind(Top) # "locked")
    BY <2>1, <2>2, <2>3
  <2>5. v = (IF -1 = 0 THEN 0 ELSE 0) /\ v \in Nat /\ -1 \in Int /\ 0 \in Nat
    OBVIOUS
  <2> HIDE DEF v
  <2> QED
    BY <1>1, <1>5, <2>4, <2>5, Returned
<1> QED
  BY <1>4, <1>5 DEF NsScandir

\* The greatest of a list of files is one of them.
LEMMA LastOfList ==
  ASSUME NEW list, list \subseteq Nodes, list # {}
  PROVE  (CHOOSE n \in list : \A g \in list : g <= n) \in list
<1> DEFINE T == {MaxNode - n : n \in list}
<1>1. \A n \in list : n \in Int /\ MaxNode - n \in Nat
  BY SizeAssumption DEF Nodes
<1>2. T \subseteq Nat /\ T # {}
  BY <1>1
<1>3. PICK m \in T : \A j \in T : ~(j < m)
  BY <1>2, LeastNumber
<1>4. PICK n \in list : m = MaxNode - n
  BY <1>3
<1>5. \A g \in list : g <= n
  <2> TAKE g \in list
  <2>1. ~(MaxNode - g < MaxNode - n)
    BY <1>3, <1>4
  <2> QED
    BY <1>1, <2>1, SizeAssumption
<1> QED
  BY <1>5

\* The call for the next entry.
LEMMA LoopKept ==
  ASSUME NsInv, NsLoop
  PROVE  NsInv'
<1> DEFINE k == Len(frames)
           f == CHOOSE n \in Now.list : \A g \in Now.list : g <= n
           fr == [Now EXCEPT !.list = @ \ {f}]
           new == Call(f, Now.left)
           mid == [frames EXCEPT ![k] = fr]
           gs == Append(mid, new)
<1>1. /\ k \in Nat \ {0} /\ Now \in Frame /\ FrameAt(shape, always, ever, frames, k)
      /\ ~Finished /\ Now.at = "loop" /\ Now.list # {}
      /\ UNCHANGED <<shape, there, always, ever, sizee>> /\ Now = frames[k]
  BY Innermost DEF NsLoop, NsAt, Now
<1>2. /\ IsShape(shape) /\ always \subseteq there /\ there \subseteq ever /\ ever \subseteq Nodes
      /\ frames \in Seq(Frame) /\ \A i \in 1..k : FrameAt(shape, always, ever, frames, i)
  BY DEF NsInv, StackInv
<1>3. mid = [frames EXCEPT ![k].list = @ \ {f}]
  BY <1>1, <1>2
<1>4. gs = frames'
  BY <1>3 DEF NsLoop
<1>5. f \in Now.list /\ Now.list \subseteq Nodes
  <2>1. Now.list \subseteq Nodes
    BY <1>1 DEF Frame
  <2> QED
    BY <1>1, <2>1, LastOfList
<1> HIDE DEF f
<1>6. /\ fr \in Frame /\ fr.path = Now.path /\ fr.at = "loop" /\ fr.node = Now.node
      /\ fr.way = Now.way /\ fr.left = Now.left /\ fr.list = Now.list \ {f}
      /\ fr.total_size = Now.total_size
  <2> DEFINE now == Now
  <2>1. now \in Frame /\ now.at = "loop"
    BY <1>1
  <2> HIDE DEF now
  <2>2. fr = [now EXCEPT !.list = @ \ {f}]
    BY DEF now
  <2>3. /\ fr \in Frame /\ fr.path = now.path /\ fr.at = "loop" /\ fr.node = now.node
        /\ fr.way = now.way /\ fr.left = now.left /\ fr.list = now.list \ {f}
        /\ fr.total_size = now.total_size
    <3> HIDE DEF fr
    <3> QED
      BY <2>1, <2>2 DEF Frame
  <2> QED
    BY <2>3 DEF now
<1>7. f \in Nodes /\ f \in Files /\ Now.left \in 0..Links /\ Now.node \in Files
  BY <1>1, <1>5, SizeAssumption DEF Frame, Files, Nodes
<1>8. /\ new \in Frame /\ new.path = f /\ new.node = f /\ new.way = {f} /\ new.left = Now.left
      /\ new.at = "stat" /\ new.list = {}
  BY <1>7 DEF Call, Frame
<1> HIDE DEF fr, new
<1>9. mid \in Seq(Frame) /\ Len(mid) = k /\ mid[k] = fr /\ \A i \in 1..k : i # k => mid[i] = frames[i]
  BY <1>1, <1>2, <1>6
<1> HIDE DEF mid
<1>10. /\ gs \in Seq(Frame) /\ Len(gs) = k + 1 /\ gs[k + 1] = new /\ gs[k] = fr
       /\ \A i \in 1..k : i # k => gs[i] = frames[i]
  BY <1>1, <1>8, <1>9
<1> HIDE DEF gs
<1>11. FrameInv(shape, ever, Now, Before(frames, k)) /\ ChainInv(shape, frames, k)
       /\ SumInv(shape, always, ever, frames, k)
  BY <1>1 DEF FrameAt
<1>12. ASSUME NEW i \in 1..k, i < k
       PROVE  FrameAt(shape, always, ever, gs, i)
  <2> DEFINE n == k
  <2>1. n \in Nat /\ i \in 1..n /\ i < n /\ i + 1 \in 1..n /\ n = Len(frames) /\ Len(gs) = n + 1
    <3> HIDE DEF k
    <3>1. k \in Nat /\ i \in 1..k /\ i < k /\ i + 1 \in 1..k /\ Len(gs) = k + 1
      BY <1>1, <1>10, <1>12
    <3> QED
      BY <3>1 DEF k
  <2>2. /\ gs \in Seq(Frame) /\ gs[n] = fr /\ Now = frames[n] /\ frames \in Seq(Frame)
        /\ \A j \in 1..n : j # n => gs[j] = frames[j]
    BY <1>1, <1>2, <1>10
  <2>3. FrameAt(shape, always, ever, frames, i)
    BY <1>2, <2>1
  <2> HIDE DEF n
  <2>4. \A j \in 1..i : gs[j] = frames[j]
    BY <2>1, <2>2
  <2>5. gs[i + 1].path = frames[i + 1].path
    <3>1. i + 1 # n => gs[i + 1] = frames[i + 1]
      BY <2>1, <2>2
    <3> QED
      BY <1>6, <2>2, <3>1
  <2>6. i < Len(frames) /\ i < Len(gs) /\ i \in 1..Len(frames)
    BY <2>1
  <2> QED
    BY <2>2, <2>3, <2>4, <2>5, <2>6, Lower
<1>13. FrameAt(shape, always, ever, gs, k)
  <2>1. k > 1 => gs[k - 1] = frames[k - 1]
    <3> HIDE DEF k
    <3> QED
      BY <1>1, <1>10
  <2>2. Before(gs, k) = Before(frames, k)
    <3>1. k # 1 => k > 1
      <4> HIDE DEF k
      <4> QED
        BY <1>1
    <3> QED
      BY <2>1, <3>1 DEF Before
  <2>3. FrameInv(shape, ever, fr, Before(frames, k))
    BY <1>1, <1>6, <1>11 DEF FrameInv, WayInv
  <2>4. ChainInv(shape, gs, k)
    <3> HIDE DEF k
    <3> QED
      BY <1>1, <1>6, <1>10, <1>11, <2>1 DEF ChainInv
  <2>5. SumInv(shape, always, ever, gs, k)
    <3>1. Done(shape, gs, k) = Done(shape, frames, k)
      <4>1. k < Len(gs) /\ ~(k < Len(frames))
        <5> DEFINE n == k
        <5>1. n \in Nat /\ Len(gs) = n + 1
          BY <1>1, <1>10
        <5> HIDE DEF n
        <5>2. n < Len(gs) /\ ~(n < n)
          BY <5>1
        <5> QED
          BY <5>2 DEF n
      <4> QED
        BY <1>1, <1>5, <1>6, <1>8, <1>10, <4>1 DEF Done
    <3>2. Safe(always, gs, k) = Safe(always, frames, k)
      <4>1. \A j \in 1..k : gs[j].way = frames[j].way
        <5> HIDE DEF k
        <5> QED
          BY <1>1, <1>6, <1>10
      <4> QED
        BY <4>1 DEF Safe
    <3> QED
      BY <1>1, <1>6, <1>10, <1>11, <3>1, <3>2 DEF SumInv
  <2> QED
    BY <1>10, <2>2, <2>3, <2>4, <2>5 DEF FrameAt
<1>14. FrameAt(shape, always, ever, gs, k + 1)
  <2> DEFINE n == k
  <2>1. n \in Nat \ {0} /\ n + 1 # 1 /\ n + 1 > 1 /\ (n + 1) - 1 = n
    <3>1. n \in Nat \ {0}
      BY <1>1
    <3> HIDE DEF n
    <3> QED
      BY <3>1
  <2>2. gs[n + 1] = new /\ gs[n] = fr /\ Now = frames[n]
    BY <1>1, <1>10
  <2>3. f \in Kids(shape, Now.node) /\ f \in ever
    BY <1>5, <1>11 DEF FrameInv
  <2>4. Before(gs, n + 1) = Now.left
    <3> HIDE DEF n
    <3> QED
      BY <1>6, <2>1, <2>2 DEF Before
  <2>5. FrameInv(shape, ever, new, Now.left)
    <3>1. WayInv(shape, new, Now.left)
      <4>1. ASSUME NEW S \in SUBSET Nodes, f \notin S \cup {Top}
            PROVE  Sizes(shape, S)[<<f, Now.left>>] = 0
        <5> DEFINE m == Now.left
        <5>1. m \in 0..Links /\ IsShape(shape) /\ f \in Files
          BY <1>2, <1>7
        <5> HIDE DEF m
        <5>2. Sizes(shape, S)[<<f, m>>] = 0
          BY <4>1, <5>1, SizeCases
        <5> QED
          BY <5>2 DEF m
      <4> QED
        BY <1>8, <4>1 DEF WayInv
    <3>2. new = Call(f, Now.left)
      BY DEF new
    <3> QED
      BY <1>8, <2>3, <3>1, <3>2 DEF FrameInv
  <2>6. ChainInv(shape, gs, n + 1)
    <3>1. n - 1 <= (Links - Now.left) * (MaxNode + 1) + Now.node
      BY <1>1, <1>11 DEF ChainInv
    <3>2. Now.node < f
      BY <1>2, <1>7, <2>3 DEF IsShape, Kids
    <3> DEFINE d == (Links - Now.left) * (MaxNode + 1)
    <3>3. d \in Int
      BY <1>7, SizeAssumption
    <3>4. Now.node \in Int /\ f \in Int
      BY <1>7, SizeAssumption DEF Files
    <3> HIDE DEF n
    <3>5. (n + 1) - 1 <= d + f
      <4> HIDE DEF d
      <4>1. n - 1 <= d + Now.node
        BY <3>1 DEF d
      <4> QED
        BY <2>1, <3>2, <3>3, <3>4, <4>1
    <3> QED
      BY <1>6, <1>8, <2>1, <2>2, <2>3, <3>5 DEF ChainInv
  <2>7. SumInv(shape, always, ever, gs, n + 1)
    BY <1>8, <2>2 DEF SumInv
  <2> HIDE DEF n
  <2>8. FrameAt(shape, always, ever, gs, n + 1)
    BY <2>2, <2>4, <2>5, <2>6, <2>7 DEF FrameAt
  <2> QED
    BY <2>8 DEF n
<1>15. StackInv(shape, always, ever, gs)
  <2>1. ASSUME NEW i \in 1..(k + 1)
        PROVE  FrameAt(shape, always, ever, gs, i)
    <3>1. (i \in 1..k /\ i < k) \/ i = k \/ i = k + 1
      <4> HIDE DEF k
      <4> QED
        BY <1>1
    <3> QED
      BY <1>12, <1>13, <1>14, <3>1
  <2> QED
    BY <1>10, <2>1 DEF StackInv
<1>16. gs # <<>> /\ sizee = Uninit
  <2>1. Len(gs) # 0
    <3> HIDE DEF k
    <3> QED
      BY <1>1, <1>10
  <2> QED
    BY <1>1, <2>1 DEF NsInv
<1> QED
  BY <1>1, <1>2, <1>4, <1>15, <1>16 DEF NsInv, Finished

\* The end of the list.
LEMMA EndKept ==
  ASSUME NsInv, NsEnd
  PROVE  NsInv'
<1> DEFINE k == Len(frames)
           before == Before(frames, k)
           s(S, x, m) == Sizes(shape, S)[<<x, m>>]
           v == Now.total_size
           d == Now.node
           n == Now.left
<1>1. /\ k \in Nat \ {0} /\ Now \in Frame /\ FrameAt(shape, always, ever, frames, k)
      /\ before \in 0..Links /\ (k = 1 => d = Top) /\ ~Finished /\ Now.at = "loop"
      /\ Now.list = {} /\ NsReturn(0, v)
      /\ UNCHANGED <<shape, there, always, ever>> /\ Now = frames[k]
  BY Innermost DEF NsEnd, NsAt, Now
<1>2. IsShape(shape) /\ always \subseteq Nodes /\ ever \subseteq Nodes
  BY DEF NsInv
<1>3. /\ Now.path \in Files /\ d \in Files /\ n \in 0..Links /\ v \in Nat
      /\ FrameInv(shape, ever, Now, before) /\ SumInv(shape, always, ever, frames, k)
  BY <1>1 DEF FrameAt, Frame
<1>4. shape[d].kind = "dir" /\ d \in Now.way /\ Now.way \subseteq ever \cup {Top}
      /\ WayInv(shape, Now, before)
  BY <1>1, <1>3 DEF FrameInv
<1>5. Done(shape, frames, k) = Kids(shape, d)
  <2>1. ~(k < k)
    BY <1>1
  <2> QED
    BY <1>1, <2>1 DEF Done
<1> HIDE DEF n, d
<1>6. \A S : d \in S \cup {Top} => Part(shape, S, Kids(shape, d), n) = s(S, d, n)
  <2>1. d \in Files /\ n \in 0..Links /\ shape[d].kind = "dir" /\ IsShape(shape)
    BY <1>2, <1>3, <1>4
  <2> QED
    BY <2>1, DirSize
<1>7. /\ Safe(always, frames, k) => Part(shape, always, Kids(shape, d), n) <= v
      /\ v <= Part(shape, ever, Kids(shape, d), n)
  BY <1>1, <1>3, <1>5 DEF SumInv, n
<1>8. \A S \in SUBSET Nodes :
        s(S, Now.path, before) = IF Now.way \subseteq S \cup {Top} THEN s(S, d, n) ELSE 0
  BY <1>4 DEF WayInv, d, n
<1>9. ASSUME Safe(always, frames, k - 1)
      PROVE  s(always, Now.path, before) <= v
  <2>1. CASE Now.way \subseteq always \cup {Top}
    <3>1. \A j \in 1..k : j \in 1..(k - 1) \/ j = k
      <4> HIDE DEF k
      <4> QED
        BY <1>1
    <3>2. Safe(always, frames, k)
      BY <1>1, <1>9, <2>1, <3>1 DEF Safe
    <3> QED
      BY <1>2, <1>4, <1>6, <1>7, <1>8, <2>1, <3>2
  <2>2. CASE ~(Now.way \subseteq always \cup {Top})
    <3>1. s(always, Now.path, before) = 0
      BY <1>2, <1>8, <2>2
    <3> HIDE DEF s, v
    <3> QED
      BY <1>3, <3>1
  <2> QED
    BY <2>1, <2>2
<1>10. v <= s(ever, Now.path, before)
  BY <1>2, <1>4, <1>6, <1>7, <1>8
<1>11. k = 1 => (0 = 0 <=> Kind(Top) # "locked")
  BY <1>1, <1>4 DEF Kind
<1>12. v = (IF 0 = 0 THEN v ELSE 0) /\ 0 \in Int
  OBVIOUS
<1> HIDE DEF v
<1> QED
  BY <1>1, <1>3, <1>9, <1>10, <1>11, <1>12, Returned

\* Other programs.
LEMMA OthersKept ==
  ASSUME NsInv, NEW f \in Nodes, NsCreate(f) \/ NsRemove(f)
  PROVE  NsInv'
<1>1. /\ IsShape(shape) /\ StackInv(shape, always, ever, frames) /\ ~Finished
      /\ always \subseteq there /\ there \subseteq ever /\ ever \subseteq Nodes
      /\ sizee = Uninit
  BY DEF NsInv, NsCreate, NsRemove
<1>2. /\ UNCHANGED <<shape, frames, sizee>> /\ always' \subseteq always /\ ever \subseteq ever'
      /\ always' \subseteq there' /\ there' \subseteq ever' /\ ever' \subseteq Nodes
  BY <1>1 DEF NsCreate, NsRemove
<1>3. StackInv(shape, always', ever', frames)
  BY <1>1, <1>2, Changes
<1> QED
  BY <1>1, <1>2, <1>3 DEF NsInv, Finished

LEMMA NsInvNext == NsInv /\ [NsNext]_nsVars => NsInv'
<1> SUFFICES ASSUME NsInv, [NsNext]_nsVars PROVE NsInv'
  OBVIOUS
<1>1. CASE NsStep
  BY <1>1, StatKept, ScandirKept, LoopKept, EndKept DEF NsStep
<1>2. CASE \E f \in Nodes : NsCreate(f) \/ NsRemove(f)
  BY <1>2, OthersKept
<1>3. CASE UNCHANGED nsVars
  BY <1>3 DEF NsInv, nsVars, Finished
<1> QED
  BY <1>1, <1>2, <1>3 DEF NsNext

\* There are never more activations than files and links allow, whatever link leads
\* back to a directory above it.
LEMMA NsInvTypes == NsInv => NsTypeOK
<1> SUFFICES ASSUME NsInv PROVE NsTypeOK
  OBVIOUS
<1>1. frames \in Seq(Frame) /\ \A i \in 1..Len(frames) : ChainInv(shape, frames, i)
  BY DEF NsInv, StackInv, FrameAt
<1>2. \A i \in 1..Len(frames) : frames[i] \in Frame
  BY <1>1
<1>3. Len(frames) <= (Links + 1) * (MaxNode + 1)
  <2> DEFINE k == Len(frames)
             top == (Links + 1) * (MaxNode + 1)
  <2>1. k \in Nat /\ k = Len(frames)
    BY <1>1
  <2>2. top \in Nat
    <3>1. Links + 1 \in Nat /\ MaxNode + 1 \in Nat
      BY SizeAssumption
    <3> QED
      BY <3>1
  <2> HIDE DEF k
  <2>3. CASE k = 0
    <3> HIDE DEF top
    <3>1. k <= top
      BY <2>2, <2>3
    <3> QED
      BY <3>1 DEF k, top
  <2>4. CASE k # 0
    <3> DEFINE n == frames[k].left
               f == frames[k].node
               r == (Links - n) * (MaxNode + 1) + f
    <3>1. k \in 1..Len(frames)
      BY <2>1, <2>4
    <3>2. n \in 0..Links /\ f \in Files
      BY <1>2, <3>1 DEF Frame
    <3>3. k - 1 <= r
      BY <1>1, <3>1 DEF ChainInv
    <3> HIDE DEF n, f
    <3>4. r < top /\ r \in Nat
      BY <3>2, Depth
    <3> HIDE DEF r, top
    <3>5. k <= top
      BY <2>1, <2>2, <3>3, <3>4
    <3> QED
      BY <3>5 DEF k, top
  <2> QED
    BY <2>1, <2>3, <2>4 DEF top
<1>4. sizee \in Nat \cup {Uninit}
  BY DEF NsInv, ResultInv
<1>5. ASSUME NEW i \in 1..Len(frames)
      PROVE  /\ frames[i].path \in Files /\ frames[i].node \in Files
             /\ frames[i].way \subseteq Files /\ frames[i].left \in 0..Links
             /\ frames[i].at \in {"stat", "scandir", "loop"}
             /\ frames[i].list \subseteq Nodes
             /\ frames[i].total_size \in Nat /\ frames[i].node_size \in Nat
  BY <1>2 DEF Frame
<1>6. always \subseteq there /\ there \subseteq ever /\ ever \subseteq Nodes
  BY DEF NsInv
<1> QED
  BY <1>3, <1>4, <1>5, <1>6 DEF NsTypeOK

-----------------------------------------------------------------------------
(* Theorems                                                                *)

\* The invariant of all activations.
THEOREM NsInvariant == NsSpec => []NsInv
<1> QED
  BY NsInvInit, NsInvNext, PTL DEF NsSpec

\* get_node_size of 008/main.cpp adds up at least the files that were there all the
\* time and at most those that were there at some time, by all the paths that stat
\* follows, and its recursion is bounded, whatever other programs do meanwhile.
THEOREM NsBetweenAlways == NsSpec => []NsBetween
<1>1. NsInv => NsBetween
  BY NsInvTypes DEF NsInv, NsBetween, ResultInv, Kind
<1> QED
  BY <1>1, NsInvariant, PTL
=============================================================================
