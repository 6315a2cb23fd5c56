------------------------------ MODULE PostFate ------------------------------
(***************************************************************************)
(* What becomes of a post, without handlers, rows and copies: the MTA has  *)
(* it until it is answered, the moderation queue until somebody clears it, *)
(* and neither lets go of it before its fate is decided.  It is delivered  *)
(* to the list, or its sender is told, or it was returned to him, or       *)
(* dropped.  Decisions that overlap, and attempts that are repeated, may   *)
(* give it more than one of these; none is taken back.                     *)
(*                                                                         *)
(* Posting implements this module (Posting!Fate).                          *)
(***************************************************************************)
CONSTANTS Posts

VARIABLES atMTA,  \* posts the MTA has yet to see answered
          queue,  \* posts that wait for a moderator
          fate    \* what has become of each post so far

fateVars == <<atMTA, queue, fate>>

Fates == {"archived", "delivered", "told", "refused", "dropped"}

\* An archive entry alone settles nothing: its copies may be lacking.
Decided(p) == fate[p] \ {"archived"} # {}

FateTypeOK == /\ atMTA \subseteq Posts /\ queue \subseteq Posts
              /\ fate \in [Posts -> SUBSET Fates]

FateInit == /\ atMTA = Posts
            /\ queue = {}
            /\ fate = [p \in Posts |-> {}]

Meets(S, F) == fate' = [p \in Posts |-> IF p \in S THEN fate[p] \cup F
                                                   ELSE fate[p]]

Hold(p) ==
    /\ queue' = queue \cup {p}
    /\ UNCHANGED <<atMTA, fate>>

\* A list without members has its copies at once.
Archive(p) ==
    /\ Meets({p}, {"archived"}) \/ Meets({p}, {"archived", "delivered"})
    /\ UNCHANGED <<atMTA, queue>>

\* The last copy is queued, or those who lack one are members no longer.
Deliver(S) ==
    /\ \A p \in S : "archived" \in fate[p]
    /\ Meets(S, {"delivered"})
    /\ UNCHANGED <<atMTA, queue>>

Tell(p) ==
    /\ Meets({p}, {"told"})
    /\ UNCHANGED <<atMTA, queue>>

\* 250: the MTA forgets what is held or decided.
Accept(p) ==
    /\ p \in atMTA
    /\ p \in queue \/ Decided(p)
    /\ atMTA' = atMTA \ {p}
    /\ UNCHANGED <<queue, fate>>

\* 550: the MTA returns it to its sender.
Return(p) ==
    /\ p \in atMTA
    /\ atMTA' = atMTA \ {p}
    /\ Meets({p}, {"refused"})
    /\ UNCHANGED queue

\* The decision on a held post has been carried out.
Clear(p) ==
    /\ p \in queue /\ Decided(p)
    /\ queue' = queue \ {p}
    /\ UNCHANGED <<atMTA, fate>>

\* A moderator or time discards posts.  One of them may have been decided by
\* somebody else meanwhile, or be held in another row that stays.
Drop(S, T) ==
    /\ T \subseteq S
    /\ \A p \in S : p \in queue \/ Decided(p)
    /\ queue' = queue \ T
    /\ Meets(S, {"dropped"})
    /\ UNCHANGED atMTA

FateNext ==
    \/ \E p \in Posts : \/ Hold(p) \/ Archive(p) \/ Tell(p)
                        \/ Accept(p) \/ Return(p) \/ Clear(p)
    \/ \E S \in SUBSET Posts : Deliver(S) \/ \E T \in SUBSET S : Drop(S, T)

FateSpec == FateInit /\ [][FateNext]_fateVars
=============================================================================
