------------------------- MODULE MCPowerShellBridge -------------------------
(***************************************************************************)
(* Instances of PowerShellBridge.  A pipe and a chunk of two units, caps    *)
(* of three and one: an answer of three units is exactly the cap and ends   *)
(* in an unfinished chunk, one of four outgrows it, and neither fits the    *)
(* pipe.  A request of three units does not fit the pipe either.            *)
(***************************************************************************)
EXTENDS PowerShellBridge

AllJobs ==
  [request : {1, 3}, reads : BOOLEAN,
   emits : {[stdout |-> o, stderr |-> e] : o \in 3 .. 4, e \in {0, 2}},
   ends : BOOLEAN, code : 0 .. 1, dies : {"TERM", "KILL", "never"}, heir : BOOLEAN]

\* the requests that cannot block main
MCJobs == {j \in AllJobs : j.request <= 2 \/ j.reads}

GoodCall == [cloud |-> "public", module |-> TRUE, adapter |-> TRUE,
             executable |-> TRUE, fits |-> TRUE]

\* at most one thing is wrong with a call
MCCalls == {GoodCall, [GoodCall EXCEPT !.cloud = "national"]}
           \cup {[GoodCall EXCEPT ![f] = FALSE] :
                   f \in {"module", "adapter", "executable", "fits"}}

MCCap == [stdout |-> 3, stderr |-> 1]
=============================================================================
