------------------------------ MODULE MailFate ------------------------------
(***************************************************************************)
(* What the outbound queue promises, without the queue: every message      *)
(* handed to it meets at most one final fate.  It is relayed (Send         *)
(* reported success), bounced to its poster with exactly one notice,       *)
(* dropped, or withdrawn by an administrator; only a withdrawal can be     *)
(* overtaken, by the attempt that was already under way.  A notice is      *)
(* never itself answered by a notice, so the queue cannot feed itself.     *)
(*                                                                         *)
(* OutboundQueue implements this module (OutboundQueue!Fate).              *)
(***************************************************************************)
CONSTANTS Ids,   \* identities of messages, notices included
          None   \* no message

VARIABLES fate,        \* what became of each message
          bounceable,  \* messages whose poster is told when they fail
          inHand       \* the message being attempted, or None

fateVars == <<fate, bounceable, inHand>>

Fates == {"unborn", "pending", "relayed", "bounced", "dropped", "withdrawn"}

FateTypeOK == /\ fate \in [Ids -> Fates]
              /\ bounceable \subseteq Ids
              /\ inHand \in Ids \cup {None}

FateInit == /\ fate = [m \in Ids |-> "unborn"]
            /\ bounceable = {}
            /\ inHand = None

Submit(m) ==
    /\ fate[m] = "unborn"
    /\ fate' = [fate EXCEPT ![m] = "pending"]
    /\ \/ bounceable' = bounceable \cup {m}
       \/ UNCHANGED bounceable
    /\ UNCHANGED inHand

Take(m) ==
    /\ inHand = None
    /\ fate[m] = "pending"
    /\ inHand' = m
    /\ UNCHANGED <<fate, bounceable>>

\* The attempt failed and will be repeated, or was cut short.
PutBack ==
    /\ inHand # None
    /\ inHand' = None
    /\ UNCHANGED <<fate, bounceable>>

Relay(m) ==
    /\ inHand = m
    /\ fate' = [fate EXCEPT ![m] = "relayed"]
    /\ inHand' = None
    /\ UNCHANGED bounceable

\* One step for what the code does in two: the notice n takes over from m.
Bounce(m, n) ==
    /\ inHand = m
    /\ m \in bounceable
    /\ fate[n] = "unborn"
    /\ fate' = [fate EXCEPT ![m] = "bounced", ![n] = "pending"]
    /\ inHand' = None
    /\ UNCHANGED bounceable

Drop(m) ==
    /\ inHand = m
    /\ fate' = [fate EXCEPT ![m] = "dropped"]
    /\ inHand' = None
    /\ UNCHANGED bounceable

Withdraw(S) ==
    /\ \A m \in S : fate[m] = "pending"
    /\ fate' = [m \in Ids |-> IF m \in S THEN "withdrawn" ELSE fate[m]]
    /\ UNCHANGED <<bounceable, inHand>>

FateNext ==
    \/ \E m \in Ids : Submit(m) \/ Take(m) \/ Relay(m) \/ Drop(m)
    \/ \E m, n \in Ids : Bounce(m, n)
    \/ PutBack
    \/ \E S \in SUBSET Ids : Withdraw(S)

FateSpec == FateInit /\ [][FateNext]_fateVars
=============================================================================
