------------------------------- MODULE Rpc -------------------------------
(***************************************************************************)
(* What an encapsulation session promises to the code that calls           *)
(* EipClient::transaction: a call that was begun ends exactly once; it     *)
(* ends "ok" only with the target's answer to that very call, and only     *)
(* while the session lives; the verdicts that mean "reconnect" are given   *)
(* only by a session that has ended, and a session that ended never        *)
(* answers again.                                                          *)
(***************************************************************************)
CONSTANT Calls

VARIABLES phase,   \* [Calls -> "new", "pending" or the call's verdict]
          served,  \* the calls whose request the target has answered
          alive    \* FALSE once the session is over

vars == <<phase, served, alive>>

\* Verdicts that leave the session usable, and those that tell the caller to reconnect.
Local == {"timeout", "encap", "violation", "abandoned"}
Final == {"lost", "closed", "poisoned"}

Init == /\ phase = [c \in Calls |-> "new"]
        /\ served = {}
        /\ alive \in BOOLEAN

\* A call begun on a session that is over may be refused on the spot.
Begin(c) == /\ phase[c] = "new"
            /\ \E v \in {"pending"} \cup (IF alive THEN {} ELSE Final) :
                 phase' = [phase EXCEPT ![c] = v]
            /\ UNCHANGED <<served, alive>>

\* The target may answer at any time after the call began, also after its caller gave up.
Serve(c) == /\ phase[c] # "new"
            /\ served' = served \cup {c}
            /\ UNCHANGED <<phase, alive>>

Answer(c) == /\ alive /\ c \in served
             /\ phase[c] = "pending"
             /\ phase' = [phase EXCEPT ![c] = "ok"]
             /\ UNCHANGED <<served, alive>>

\* The session's death gives every call that waits a verdict at once.
Sever == /\ alive' = FALSE
         /\ \E S \in SUBSET Calls :
              /\ \A c \in S : phase[c] = "pending"
              /\ \E f \in [S -> Final] : phase' = [c \in Calls |-> IF c \in S THEN f[c] ELSE phase[c]]
         /\ UNCHANGED served

GiveUp(c) == /\ phase[c] = "pending"
             /\ \E v \in Local \cup (IF alive THEN {} ELSE Final) :
                  phase' = [phase EXCEPT ![c] = v]
             /\ UNCHANGED <<served, alive>>

Next == \/ \E c \in Calls : Begin(c) \/ Serve(c) \/ Answer(c) \/ GiveUp(c)
        \/ Sever

Spec == Init /\ [][Next]_vars /\ \A c \in Calls : WF_vars(Answer(c) \/ GiveUp(c))
==========================================================================
