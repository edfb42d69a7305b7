------------------------------ MODULE MCExecGraph ------------------------------
(***************************************************************************)
(* Two schedules on three workers and the main thread.  Schedule 1 has     *)
(* four thread functions with dependencies across threads in both          *)
(* directions, along a thread and a diamond; schedule 2 depends on         *)
(* schedule 1 and has two functions, so that two workers stay idle in it.  *)
(***************************************************************************)
EXTENDS ExecGraph

MCMTask == 1 .. 9
MCEdge == {<<1, 3>>, <<2, 3>>, <<2, 4>>, <<1, 4>>, <<3, 5>>, <<8, 5>>, <<2, 8>>,
           <<4, 6>>, <<9, 6>>, <<6, 7>>}
MCNSched == 2
MCNFuncs == <<4, 2>>
MCBody == [f \in Fn |->
    CASE f = <<1, 1>> -> <<1, 4>>
      [] f = <<1, 2>> -> <<2, 8>>
      [] f = <<1, 3>> -> <<9>>
      [] f = <<1, 4>> -> <<3, 5>>
      [] f = <<2, 1>> -> <<6>>
      [] f = <<2, 2>> -> <<7>>]
MCFnOf == [m \in MTask |-> CHOOSE f \in Fn : \E k \in DOMAIN Body[f] : Body[f][k] = m]
MCPosOf == [m \in MTask |-> CHOOSE k \in DOMAIN Body[FnOf[m]] : Body[FnOf[m]][k] = m]
================================================================================
