------------------------ MODULE MCCompletionCredit ------------------------
(* Instances of CompletionCredit small enough for TLC: two completions of  *)
(* one manager, which together exceed the balance.                         *)
EXTENDS CompletionCredit

MCRepairs == {"r1", "r2"}
MCAmount == [r \in MCRepairs |-> 2]
MCManagerPays == [r \in MCRepairs |-> "MANAGER"]
===========================================================================
