------------------------------ MODULE MCInbound ------------------------------
(***************************************************************************)
(* A list, two with names that look like its special addresses, and        *)
(* members with every character the addresses use.  Every kind of mail by  *)
(* itself; command mails for each status of their sender; a message to     *)
(* two recipients; two messages, one of them a bounce (null sender).       *)
(***************************************************************************)
EXTENDS Inbound, TLC

CONSTANTS m1, m2

List(name) == name \o <<"@", "lists">>
Dev        == List(<<"dev">>)
MCLists    == {Dev, List(<<"dev", "-owner">>), List(<<"dev", "-bounces">>)}
Gone      == List(<<"gone">>)

At_(name) == name \o <<"@", "home">>
Ann       == At_(<<"ann">>)
Members   == {Ann, At_(<<"ann", "+", "x">>), At_(<<"a", "=", "b">>),
              At_(<<"a", "@", "b">>), At_(<<"a", "@", "b", "=", "c">>),
              At_(<<"ann", "-bounces">>), At_(<<"ann", "-bounces", "+", "x">>)}

Nothing       == [to |-> {}, body |-> <<>>, null |-> FALSE]
One(t)        == [to |-> {t}, body |-> <<>>, null |-> t.kind = "bounce"]
Bounce(l, m)  == One(Task("bounce", l, m))
Request       == Task("request", Dev, <<>>)
Order(body)   == [to |-> {Request}, body |-> body, null |-> FALSE]
Scenario(x, y, s) == [mail |-> m1 :> x @@ m2 :> y, status |-> s]

Plain == {Bounce(l, m) : l \in MCLists, m \in Members}
         \cup {Bounce(Gone, Ann)}
         \cup {One(Task(k, l, <<"token">>)) :
                  k \in {"confirm", "moderate"}, l \in MCLists}
         \cup {One(Task(k, l, <<>>)) : l \in MCLists,
                  k \in {"post", "subscribe", "unsubscribe", "owner",
                         "reply"}}
         \cup {One(Task("owner", Gone, <<>>))}

Bodies == {<<>>, <<"digest", "", "nomail">>, <<"re-enable", ">", "digest">>,
           <<"digest", "contact", "unsubscribe">>,
           <<"digest", "unsubscribe", "re-enable">>}

Two == [to |-> {Task("post", Gone, <<>>), Request}, body |-> <<"nomail">>,
        null |-> FALSE]

MCScenarios ==
    {Scenario(x, Nothing, "active") : x \in Plain}
    \cup {Scenario(Order(b), Nothing, s) : b \in Bodies, s \in Statuses}
    \cup {Scenario(Two, Nothing, "active"),
          Scenario(Order(<<"re-enable">>), Bounce(Dev, Ann), "disabled")}
=============================================================================
