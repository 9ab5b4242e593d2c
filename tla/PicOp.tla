------------------------------- MODULE PicOp -------------------------------
(***************************************************************************)
(* 006/pic_op.c: pic_open_path and pic_open_data decode a picture with     *)
(* libav.  Each is a ladder of calls that allocate something, every one    *)
(* of which may fail, and a ladder of labels ending3, ending2, ending1     *)
(* that frees what was allocated so far.  The model keeps the local        *)
(* pointers, what is allocated behind them, and the order of the calls;    *)
(* the pictures themselves are left out.                                   *)
(***************************************************************************)
EXTENDS Integers, FiniteSets

CONSTANT Faults   \* the calls that may fail

\* The calls in the order they are made, by the names of what they do: Wrap
\* belongs to pic_open_data_wrap and Alloc to pic_open_data only.
Wrap == {"stat", "malloc_file", "open", "read"}
Alloc == {"alloc_ctx", "av_malloc", "alloc_avio"}
Demux == {"open_input", "find_stream_info", "nb_streams"}
Decode == {"format", "read_frame", "frame_alloc", "find_decoder", "alloc_context3",
           "open2", "send_packet", "receive_frame", "malloc"}
Convert == {"image_alloc", "getContext", "copy_to_buffer"}
Calls == Wrap \cup Alloc \cup Demux \cup Decode \cup Convert

ASSUME PicAssumption == Faults \subseteq Calls

VARIABLES
  fn,       \* the function that runs
  pc,       \* the call or label it is at
  ptr,      \* the local pointers: not initialised, null, or set
  live,     \* what is allocated
  ret,      \* 0 or a negative error, written -1
  failed,   \* a call has failed
  bad       \* the pointers that were freed and are no allocation: the program is dead

vars == <<fn, pc, ptr, live, ret, failed, bad>>

\* The locals of pic_open_path and pic_open_data (pix_convert's last), and the
\* buffer and the descriptor of pic_open_data_wrap.
Local == {"ifmt_ctx", "avio_ctx_buffer", "avio_ctx", "packet", "frame", "codec_ctx",
          "buffer", "sws_dst_data", "sws_ctx"}
WrapLocal == {"file_buffer", "fd"}
Object == Local \cup WrapLocal
Endings == {"ending4", "ending3", "ending2", "ending1"}

TypeOK ==
  /\ fn \in {"path", "wrap", "data"}
  /\ pc \in Calls \cup Endings \cup {"return", "cleanup", "exit"}
  /\ ptr \in [Object -> {"uninit", "null", "set"}]
  /\ live \subseteq Object
  /\ ret \in {-1, 0}
  /\ failed \in BOOLEAN
  /\ bad \subseteq Object

\* The pointers that are null when a function starts; the others are declared,
\* and initialised, further down.
Start ==
  [x \in Object |->
     IF x \in {"ifmt_ctx", "avio_ctx_buffer", "avio_ctx", "file_buffer"} THEN "null"
     ELSE "uninit"]

\* main calls pic_open_path and then pic_open_data_wrap with the same picture.
Init ==
  /\ fn = "path" /\ pc = "open_input"
  /\ ptr = Start
  /\ live = {} /\ ret = 0
  /\ failed = FALSE /\ bad = {}

-----------------------------------------------------------------------------
At(l) == bad = {} /\ pc = l

\* x is allocated.
Get(x) == ptr' = [ptr EXCEPT ![x] = "set"] /\ live' = live \cup {x}

Keep == UNCHANGED <<ptr, live>>

\* Freeing what x points to is wrong when x was freed before.
Dangling(x) == ptr[x] = "set" /\ x \notin live

\* The pointers in X are freed.  A null one may be; one that is not initialised
\* is null by chance or points where nothing was allocated.
Free(X) ==
  /\ live' = live \ {x \in X : ptr[x] = "set"}
  /\ \E chance \in SUBSET {x \in X : ptr[x] = "uninit"} :
       bad' = chance \cup {x \in X : Dangling(x)}
  /\ ptr' = [x \in Object |-> IF x \in X THEN "null" ELSE ptr[x]]

Go(l) == pc' = l /\ UNCHANGED <<ret, failed, bad>>

\* The call made at pc fails: ret becomes negative and control goes to l.
Fail(l) ==
  /\ pc \in Faults
  /\ pc' = l /\ ret' = -1 /\ failed' = TRUE
  /\ UNCHANGED bad

-----------------------------------------------------------------------------
(* pic_open_data_wrap reads the file into memory for pic_open_data           *)

\* main does not look at what pic_open_path returned.
CallWrap ==
  /\ At("return") /\ fn = "path"
  /\ fn' = "wrap" /\ pc' = "stat"
  /\ ptr' = Start /\ ret' = 0 /\ failed' = FALSE
  /\ UNCHANGED <<live, bad>>

StatFile ==
  /\ At("stat") /\ Keep
  /\ Go("malloc_file") \/ Fail("exit")
  /\ UNCHANGED fn

\* A failing malloc is printed and nothing else.
MallocFile ==
  /\ At("malloc_file")
  /\ \/ Get("file_buffer") /\ Go("open")
     \/ "malloc_file" \in Faults /\ Keep /\ Go("open")
  /\ UNCHANGED fn

OpenFile ==
  /\ At("open")
  /\ \/ Get("fd") /\ Go("read")
     \/ /\ ptr' = [ptr EXCEPT !["file_buffer"] = "null"]
        /\ live' = live \ {"file_buffer"}
        /\ Fail("exit")
  /\ UNCHANGED fn

\* read fails with EFAULT when there is no buffer.
ReadFile ==
  /\ At("read") /\ Keep
  /\ \/ /\ ptr["file_buffer"] = "set"
        /\ fn' = "data" /\ Go("alloc_ctx")
     \/ /\ ptr["file_buffer"] = "set" => "read" \in Faults
        /\ pc' = "cleanup" /\ ret' = -1 /\ failed' = TRUE
        /\ UNCHANGED <<fn, bad>>

\* pic_open_data has returned; its result is dropped.
Return ==
  /\ At("return") /\ fn = "data"
  /\ fn' = "wrap" /\ pc' = "cleanup"
  /\ UNCHANGED <<ptr, live, ret, failed, bad>>

CleanUp ==
  /\ At("cleanup") /\ pc' = "exit"
  /\ Free(WrapLocal)
  /\ UNCHANGED <<fn, ret, failed>>

-----------------------------------------------------------------------------
(* pic_open_data: the input context over memory                            *)

AllocContext ==
  /\ At("alloc_ctx")
  /\ \/ Get("ifmt_ctx") /\ Go("av_malloc")
     \/ Keep /\ Fail("ending1")
  /\ UNCHANGED fn

AvMalloc ==
  /\ At("av_malloc")
  /\ \/ Get("avio_ctx_buffer") /\ Go("alloc_avio")
     \/ Keep /\ Fail("ending1")
  /\ UNCHANGED fn

AllocAvio ==
  /\ At("alloc_avio")
  /\ \/ Get("avio_ctx") /\ Go("open_input")
     \/ Keep /\ Fail("ending1")
  /\ UNCHANGED fn

-----------------------------------------------------------------------------
(* pic_demux.  When it fails, pic_open_path returns and pic_open_data goes  *)
(* to ending1; ifmt_ctx is null then.                                       *)

DemuxExit == IF fn = "path" THEN "return" ELSE "ending1"

\* A failing avformat_open_input frees the context it was given.
OpenInput ==
  /\ At("open_input")
  /\ \/ Get("ifmt_ctx") /\ Go("find_stream_info")
     \/ /\ ptr' = [ptr EXCEPT !["ifmt_ctx"] = "null"]
        /\ live' = live \ {"ifmt_ctx"}
        /\ Fail(DemuxExit)
  /\ UNCHANGED fn

\* avformat_find_stream_info and the test of nb_streams close the input.
Streams ==
  /\ pc \in {"find_stream_info", "nb_streams"} /\ bad = {}
  /\ \/ Keep /\ Go(IF pc = "nb_streams" THEN "format" ELSE "nb_streams")
     \/ /\ ptr' = [ptr EXCEPT !["ifmt_ctx"] = "null"]
        /\ live' = live \ {"ifmt_ctx"}
        /\ Fail(DemuxExit)
  /\ UNCHANGED fn

-----------------------------------------------------------------------------
(* Reading and decoding, the same in both functions                        *)

\* After this step frame is null and packet is empty.
Format ==
  /\ At("format")
  /\ \/ /\ ptr' = [ptr EXCEPT !["frame"] = "null", !["packet"] = "null"]
        /\ UNCHANGED live
        /\ Go("read_frame")
     \/ Keep /\ Fail("ending1")
  /\ UNCHANGED fn

ReadFrame ==
  /\ At("read_frame")
  /\ \/ Get("packet") /\ Go("frame_alloc")
     \/ Keep /\ Fail("ending1")
  /\ UNCHANGED fn

FrameAlloc ==
  /\ At("frame_alloc")
  /\ \/ Get("frame") /\ Go("find_decoder")
     \/ Keep /\ Fail("ending2")
  /\ UNCHANGED fn

\* codec_ctx is null before the decoder is looked up.
FindDecoder ==
  /\ At("find_decoder")
  /\ ptr' = [ptr EXCEPT !["codec_ctx"] = "null"] /\ UNCHANGED live
  /\ Go("alloc_context3") \/ Fail("ending3")
  /\ UNCHANGED fn

AllocContext3 ==
  /\ At("alloc_context3")
  /\ \/ Get("codec_ctx") /\ Go("open2")
     \/ Keep /\ Fail("ending3")
  /\ UNCHANGED fn

\* avcodec_open2, avcodec_send_packet, avcodec_receive_frame.
DecodePacket ==
  /\ pc \in {"open2", "send_packet", "receive_frame"} /\ bad = {}
  /\ Keep
  /\ \/ Go(CASE pc = "open2" -> "send_packet"
             [] pc = "send_packet" -> "receive_frame"
             [] pc = "receive_frame" -> "malloc")
     \/ Fail("ending3")
  /\ UNCHANGED fn

\* Mutant: ret is not set when there is no memory.
MallocUnreported ==
  /\ At("malloc")
  /\ \/ Get("buffer") /\ Go("image_alloc")
     \/ /\ ptr' = [ptr EXCEPT !["buffer"] = "null"] /\ UNCHANGED live
        /\ "malloc" \in Faults
        /\ pc' = "ending3" /\ failed' = TRUE /\ UNCHANGED <<ret, bad>>
  /\ UNCHANGED fn

\* buffer is initialised here, below the jumps to ending3.
Malloc ==
  /\ At("malloc")
  /\ \/ Get("buffer") /\ Go("image_alloc")
     \/ /\ ptr' = [ptr EXCEPT !["buffer"] = "null"] /\ UNCHANGED live
        /\ Fail("ending3")
  /\ UNCHANGED fn

-----------------------------------------------------------------------------
(* pix_convert                                                             *)

ConvertExit == IF fn = "path" THEN "ending4" ELSE "ending3"

ImageAlloc ==
  /\ At("image_alloc")
  /\ \/ Get("sws_dst_data") /\ Go("getContext")
     \/ Keep /\ Fail(ConvertExit)
  /\ UNCHANGED fn

\* Mutant: the picture is forgotten when there is no context.
GetContextLeaks ==
  /\ At("getContext")
  /\ \/ Get("sws_ctx") /\ Go("copy_to_buffer")
     \/ Keep /\ Fail(ConvertExit)
  /\ UNCHANGED fn

GetContext ==
  /\ At("getContext")
  /\ \/ Get("sws_ctx") /\ Go("copy_to_buffer")
     \/ /\ ptr' = [ptr EXCEPT !["sws_dst_data"] = "null"]
        /\ live' = live \ {"sws_dst_data"}
        /\ Fail(ConvertExit)
  /\ UNCHANGED fn

\* sws_scale; the context is freed before the result of the copy is looked at,
\* the picture after it on either branch.
CopyToBuffer ==
  /\ At("copy_to_buffer")
  /\ ptr' = [ptr EXCEPT !["sws_ctx"] = "null", !["sws_dst_data"] = "null"]
  /\ live' = live \ {"sws_ctx", "sws_dst_data"}
  /\ Go(ConvertExit) \/ Fail(ConvertExit)
  /\ UNCHANGED fn

-----------------------------------------------------------------------------
(* The labels                                                              *)

Label(l, X, next) ==
  /\ At(l)
  /\ Free(X)
  /\ pc' = next
  /\ UNCHANGED <<fn, ret, failed>>

\* pic_open_path only.
Ending4 == Label("ending4", {"buffer"}, "ending3")

\* pic_open_data frees buffer at ending3, pic_open_path does not.
Ending3 ==
  Label("ending3", {"codec_ctx"} \cup (IF fn = "data" THEN {"buffer"} ELSE {}), "ending2")

\* Mutant: ending2 frees the buffer in both functions.
Ending2FreesBuffer == Label("ending2", {"packet", "frame", "buffer"}, "ending1")

Ending2 == Label("ending2", {"packet", "frame"}, "ending1")

\* The buffer of avio_ctx is freed through avio_ctx, if there is one.
Ending1 ==
  Label("ending1",
        {"ifmt_ctx"} \cup (IF fn = "data" THEN {"avio_ctx"} ELSE {})
          \cup (IF ptr["avio_ctx"] = "set" THEN {"avio_ctx_buffer"} ELSE {}),
        "return")

Next ==
  \/ CallWrap \/ StatFile \/ MallocFile \/ OpenFile \/ ReadFile \/ Return \/ CleanUp
  \/ AllocContext \/ AvMalloc \/ AllocAvio
  \/ OpenInput \/ Streams
  \/ Format \/ ReadFrame \/ FrameAlloc \/ FindDecoder \/ AllocContext3
  \/ DecodePacket \/ Malloc
  \/ ImageAlloc \/ GetContext \/ CopyToBuffer
  \/ Ending4 \/ Ending3 \/ Ending2 \/ Ending1

Spec == Init /\ [][Next]_vars

-----------------------------------------------------------------------------
(* Properties                                                              *)

\* pic_op.c:255: when avio_alloc_context fails nothing refers to its buffer.
Lost == {"avio_ctx_buffer"}

\* A function that returns has freed everything it allocated, whichever of its
\* calls failed (the three ladders of labels in pic_op.c), the buffer of a
\* failed avio_alloc_context excepted; main.c leaves nothing behind either.
NoLeak ==
  /\ TypeOK
  /\ pc = "return" => live \cap Local \subseteq Lost
  /\ pc = "exit" => live \subseteq Lost
  /\ live \cap Lost # {} /\ pc = "return" => "alloc_avio" \in Faults /\ ret < 0

\* pic_open_path frees only what it allocated, and each object once;
\* pic_open_data may go wrong with buffer alone (pic_op.c:352).
SafeFrees == bad \subseteq (IF fn = "data" THEN {"buffer"} ELSE {})

\* What the two functions return tells whether one of their calls failed
\* (pic_op.h, "0 on success, a negative AVERROR on failure").
ErrorsReported == pc = "return" => (failed <=> ret < 0)

\* pic_op.h says that pic_open_data returns an error when it fails: it does not
\* abort the program.  The code does (pic_op.c:352 frees buffer, which the jumps
\* from above line 333 leave uninitialised).
FailureReturns == bad = {}
=============================================================================
