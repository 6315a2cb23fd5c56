-------------------------- MODULE MCOutboundQueue ---------------------------
(***************************************************************************)
(* OutboundQueue on a small instance: two messages and the notices they    *)
(* can give rise to, two attempts each, and a few faults.                  *)
(***************************************************************************)
EXTENDS OutboundQueue

\* Every submitted message can give rise to one notice.
MCIds == 1 .. 2 * MaxSubmitted
=============================================================================
