----------------------------- MODULE MCConsole -----------------------------
(***************************************************************************)
(* Two lists: ann owns the first, on which bob is moderator and a disabled *)
(* member; bob owns the second, a newsletter, where ann waits for approval *)
(* and bob is a member.  ann is Administrator.                             *)
(***************************************************************************)
EXTENDS Console, TLC

CONSTANTS ann, bob, dev, news, h1, h2

MCRows   == {1, 2}
MCFiled  == <<1, 2>>
MCSender == <<bob, ann>>

Both(x, y) == (ann :> x) @@ (bob :> y)
OnLists(x, y) == [i \in Ids |-> IF i = 1 THEN x ELSE IF i = 2 THEN y ELSE {}]

MCStart ==
    [admins |-> {ann}, lists |-> {1, 2}, subIds |-> 3,
     row |-> [i \in Ids |-> IF i = 1 THEN NewRow(dev, "discussion")
                            ELSE IF i = 2 THEN NewRow(news, "newsletter")
                            ELSE NewRow("none", "none")],
     holders |-> [owner |-> OnLists({ann}, {bob}),
                  moderator |-> OnLists({bob}, {}),
                  sender |-> OnLists({}, {bob})],
     subs |-> [i \in Ids |->
        IF i = 1 THEN Both(NoSub, [NoSub EXCEPT !.row = 1,
                                     !.status = "disabled", !.bounces = 1])
        ELSE IF i = 2 THEN Both([NoSub EXCEPT !.row = 2, !.status = "held"],
                                [NoSub EXCEPT !.row = 3, !.status = "active"])
        ELSE Both(NoSub, NoSub)]]

\* Requests that are meant well, and ones for a list, row or role of others
MCAny ==
    {Ask("queue", bob, dev, "none", "none", 0),
     Ask("open", bob, dev, "none", "none", 1),
     Ask("moderate", bob, dev, "none", "none", 1),
     Ask("moderate", ann, dev, "none", "none", 2),
     Ask("roster", bob, dev, "none", "none", 0),
     Ask("attachment", bob, dev, "none", "none", 2),
     Ask("export", ann, dev, "none", "none", 0),
     Ask("bounces", bob, dev, "none", "none", 0),
     Ask("file", bob, news, "none", "none", 2),
     Ask("log", ann, dev, "none", "none", 0),
     Ask("logs", ann, "none", "none", "none", 0),
     Ask("archives", bob, news, "none", "none", 0),
     Ask("entry", ann, news, "none", "none", 1),
     Ask("entry", bob, news, "none", "none", 2),
     Ask("mine", bob, "none", "none", bob, 0),
     Ask("delivery", bob, "none", "none", ann, 2),
     Ask("resume", bob, "none", "none", bob, 1),
     Ask("leave", ann, "none", "none", ann, 2),
     Ask("grant", ann, dev, "owner", bob, 0),
     Ask("revoke", ann, dev, "owner", ann, 0),
     Ask("grant", bob, news, "sender", ann, 0),
     Ask("revoke", ann, dev, "sender", bob, 0),
     Ask("save", ann, dev, "none", "none", 0),
     Ask("add", ann, dev, "none", ann, 0),
     Ask("import", ann, dev, "none", bob, 0),
     Ask("approve", bob, news, "none", ann, 0),
     Ask("reject", bob, news, "none", ann, 0),
     Ask("remove", bob, news, "none", bob, 0),
     Ask("reenable", ann, dev, "none", bob, 0),
     Ask("reset", ann, dev, "none", bob, 0),
     Ask("create", ann, dev, "none", bob, 0),
     Ask("delete", ann, dev, "none", "none", 0),
     Ask("type", ann, dev, "none", "none", 0),
     Ask("designate", bob, "none", "none", bob, 0),
     Ask("dismiss", ann, "none", "none", ann, 0)}

\* Next to each of them, one that changes what it relies on
MCAsks ==
    (h1 :> MCAny) @@
    (h2 :> {Ask("save", ann, dev, "none", "none", 0),
            Ask("create", ann, dev, "none", bob, 0)})

=============================================================================
