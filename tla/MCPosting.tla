----------------------------- MODULE MCPosting ------------------------------
(***************************************************************************)
(* Posting for one post, two members and two handlers: a delivery and a    *)
(* moderation, or two moderations, can overlap at every store call.        *)
(***************************************************************************)
EXTENDS Posting, TLC

\* One who may post to a discussion list and one who may post to a
\* newsletter; either is refused by the other kind of list.
MCSenderRoles == {{"subscriber"}, {"designated"}}

\* The first alone: what follows is the same for both.
MCSubscribers == {{"subscriber"}}
=============================================================================
