----------------------------- MODULE MCOneShot -----------------------------
(* The programs that run once and keep to themselves, one of them at a time:  *)
(* the picture decoder, the curl wrapper, the network tools, the size of a    *)
(* directory.  A program that is not run keeps its initial state.             *)
EXTENDS PicOp, Curl, NetTools, NodeSize

VARIABLE tool

AllCalls == Calls
AllCurl == CurlCalls
AllNet == NetSys

\* The sum of sizes tells which files were counted, and how often.
SizeOf == [f \in Nodes |-> 10^(f - 1)]

OneInit ==
  /\ tool \in {"pic", "curl", "net", "size"}
  /\ Init /\ CurlInit
  /\ NetInit /\ (tool # "net" => prog = "013" /\ little)
  /\ NsInit /\ (tool # "size" => there = {} /\ \A f \in Nodes \cup {Top} :
                                   Kind(f) = "dir" /\ Parent(f) = Top)

PicStep == tool = "pic" /\ Next /\ UNCHANGED <<tool, curlVars, netVars, nsVars>>
CurlStep == tool = "curl" /\ CurlNext /\ UNCHANGED <<tool, vars, netVars, nsVars>>
NetOther(A) == tool = "net" /\ A /\ UNCHANGED <<tool, vars, curlVars, nsVars>>
SizeOther(A) == tool = "size" /\ A /\ UNCHANGED <<tool, vars, curlVars, netVars>>

OneNext == PicStep \/ CurlStep \/ NetOther(NetNext) \/ SizeOther(NsNext)

oneVars == <<tool, vars, curlVars, netVars, nsVars>>

OneSpec ==
  /\ OneInit /\ [][OneNext]_oneVars
  /\ WF_oneVars(NetOther(NetStep)) /\ WF_oneVars(SizeOther(NsStep))

\* 010/main.cpp:16-20 and 012/main.cpp:56-60: those programs end, unless SIGUSR1
\* kills them, since they set the flag before the loop that would wait for it.
\* 008/main.cpp:31: get_node_size returns although links may lead back up the
\* tree, as long as only finitely many files are created.
ToolsEnd == (tool = "net" => NetEnds) /\ (tool = "size" => NsEnds)
=============================================================================
