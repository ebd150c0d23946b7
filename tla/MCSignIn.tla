------------------------------ MODULE MCSignIn ------------------------------
(* The sign-in servers for TLC: every behaviour runs one of Programs. *)
EXTENDS SignIn, TLC

Threads == INSTANCE SignInThreads
Turns   == INSTANCE SignInTurns
Slots   == INSTANCE SignInSlots
Single  == INSTANCE SignInSingle
Layers  == INSTANCE SignInLayers
Shared  == INSTANCE SignInShared
Sockets == INSTANCE SignInSockets

Next ==
  \/ program = "threads" /\ Threads!Next
  \/ program = "turns"   /\ Turns!Next
  \/ program = "slots"   /\ Slots!Next
  \/ program = "single"  /\ Single!Next
  \/ program = "layers"  /\ Layers!Next
  \/ program = "shared"  /\ Shared!Next
  \/ program = "sockets" /\ Sockets!Next
  \/ Restart

ConnsAlike == Permutations(Conns)

Spec == Init /\ [][Next]_vars
=============================================================================
