---------------------------- MODULE MCAlgorithms ----------------------------
(* The sequential algorithms of 001, 003, 005, 006, 007 and tree.h.  The      *)
(* initial state chooses one, a file name; the others rest.                   *)
EXTENDS RbTree, SplayTree, Pathname, ReadCfg, Split, Dump, PicData

VARIABLE what  \* the algorithm

treeVars == <<rbVars, spVars>>
textVars == <<path, cfgVars, stVars, duVars, pdVars>>
mcVars == <<treeVars, textVars, what>>

\* Two elements have the same key.
Keys == [n \in Node |-> IF n = 7 THEN 3 ELSE n]

\* The delimiters of main.c:85, subdelimiters within them, and one set for both.
SplitCalls == {<<{";"}, {","}>>, <<{";", ","}, {}>>, <<{";", ","}, {","}>>}

CfgChars == {"a", " ", "#", "=", NL}

MCInit ==
  /\ what \in {"rb", "splay", "path", "cfg", "split", "dump", "pic", "name"}
  /\ RbInit /\ SpInit /\ PathInit
  /\ IF what = "cfg" THEN CfgInit ELSE file = <<>> /\ offset = 0 /\ got = <<>>
  /\ IF what = "split" THEN SplitInit
     ELSE /\ block = <<>> /\ mem = <<NUL>> /\ delim = {} /\ subdelim = {} /\ tokens = <<>>
          /\ saveptr1 = 1 /\ saveptr2 = 0 /\ str_shd = 1 /\ pc = "outer"
  /\ IF what = "dump" THEN DumpInit ELSE type = "TEXT" /\ ptr = <<>> /\ index = 0 /\ rows = <<>>
  /\ IF what = "pic" THEN PdInit
     ELSE data = <<>> /\ bd = <<>> /\ received = <<>> /\ ret = 0 /\ d_name = <<>>

Tree ==
  /\ \/ what = "rb" /\ RbNext /\ UNCHANGED spVars
     \/ what = "splay" /\ SpNext /\ UNCHANGED rbVars
  /\ UNCHANGED <<textVars, what>>

Text ==
  /\ \/ what = "path" /\ PathNext /\ UNCHANGED <<cfgVars, stVars, duVars, pdVars>>
     \/ what = "cfg" /\ CfgNext /\ UNCHANGED <<path, stVars, duVars, pdVars>>
     \/ what = "split" /\ SplitNext /\ UNCHANGED <<path, cfgVars, duVars, pdVars>>
     \/ what = "dump" /\ DumpNext /\ UNCHANGED <<path, cfgVars, stVars, pdVars>>
     \/ what = "pic" /\ Reads /\ UNCHANGED <<path, cfgVars, stVars, duVars>>
     \/ what = "name" /\ NextName /\ UNCHANGED <<path, cfgVars, stVars, duVars>>
  /\ UNCHANGED <<treeVars, what>>

MCNext == Tree \/ Text

MCSpec == MCInit /\ [][MCNext]_mcVars
=============================================================================
