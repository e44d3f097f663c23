------------------------------ MODULE MCRoots ------------------------------
(* Instances of Roots for TLC: a program whose heap asks for collections,   *)
(* or a host that acts at every stop, with a collection at each safe point. *)
EXTENDS Roots

ProgramNext ==
  \/ Statement \/ Make \/ Read \/ Bind \/ AppendItem
  \/ GotCallee \/ Call \/ TailCall \/ Return \/ Exit
  \/ EnterNative \/ InvokeBlock \/ LeaveNative
  \/ EnterWith \/ EnterTry \/ EndBody
  \/ RaiseValue \/ Reraise \/ Catch \/ Abandon
  \/ ReadTrace \/ Destroy

HostNext ==
  \/ Statement \/ Make \/ GotCallee \/ TailCall \/ Return
  \/ EnterWith \/ EnterTry \/ RaiseValue \/ TrapRaise \/ Catch \/ Abandon
  \/ Suspend \/ Resume \/ Resolve \/ Hold \/ Release
  \/ BeginAux \/ AuxBudget \/ EndAux

MCNext == (~stress /\ ProgramNext) \/ (stress /\ HostNext)
MCSpec == Init /\ [][MCNext]_vars
=============================================================================
