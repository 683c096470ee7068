----------------------------- MODULE MCPosture -----------------------------
(***************************************************************************)
(* An instance of Posture for TLC: a reviewer, a second person, and the    *)
(* service account of a producer.  Every combination of the variables that *)
(* decide who is served, and around it each other variable on its own.     *)
(***************************************************************************)
EXTENDS Posture

CONSTANTS ann, bob, bot, Bot, home, abroad, aud, other, tok, portal, t1, t2, star

MCLower == [a \in {ann, bob, bot, Bot} |-> IF a = Bot THEN bot ELSE a]
MCPersonas == [p \in {ann, bob} |-> IF p = ann THEN t1 ELSE t2]

Grant(t, ps, d) == [tenant |-> t, principals |-> ps, domain |-> d]
MCEntitlements == {Unset, Malformed, [p \in {ann} |-> Grant(t1, {}, Absent)],
                   [p \in {ann, bob, bot} |-> IF p = ann THEN Grant(t1, {}, home)
                                             ELSE IF p = bob THEN Grant(Absent, {}, Absent)
                                             ELSE Grant(t1, Malformed, Absent)]}

Core ==
    [ profile : RuntimeProfiles \cup {Unset, "Local"}, region : {Unset, abroad},
      paths : {Unset}, policy : {"shipped"}, audience : {Unset, aud},
      entitlements : MCEntitlements, callers : {Unset, {Bot}, {bot, ann}},
      token : {Unset, tok}, origins : {Unset}, ancestors : {Unset},
      insecure_demo : BOOLEAN, host : {Unset, "all"}, launch : {"main", "uvicorn"} ]

Plain == {e \in Core : /\ e.profile \in RuntimeProfiles /\ e.region = Unset /\ e.token = tok
                       /\ e.callers = {Bot} /\ e.host = Unset /\ ~e.insecure_demo
                       /\ e.audience = aud /\ e.entitlements \in MCEntitlements \ {Unset, Malformed}}

Variations ==
    UNION { { [e EXCEPT !.profile = Emptied], [e EXCEPT !.region = Emptied],
              [e EXCEPT !.paths = Emptied], [e EXCEPT !.audience = Emptied],
              [e EXCEPT !.entitlements = Emptied], [e EXCEPT !.policy = Malformed],
              [e EXCEPT !.callers = Emptied], [e EXCEPT !.callers = {}],
              [e EXCEPT !.callers = Malformed], [e EXCEPT !.origins = {star}],
              [e EXCEPT !.ancestors = {home, star}], [e EXCEPT !.ancestors = Emptied],
              [e EXCEPT !.origins = {home}], [e EXCEPT !.region = home] } : e \in Plain }

MCEnvironments == Core \cup Variations

Assertion(who, target, signed, hd) ==
    [email |-> who, audience |-> target, genuine |-> signed, domain |-> hd]

(* What a sender may carry: its own assertion, for this service or for     *)
(* another, one made up for somebody else, or none.                        *)
Carried(who) == {Absent, Assertion(who, aud, TRUE, home), Assertion(who, other, TRUE, home),
                 Assertion(ann, aud, FALSE, home), Assertion(bot, aud, FALSE, home)}

Headers(who) ==
    { [edge |-> a, portal |-> Absent, bearer |-> b, persona |-> p] :
        a \in Carried(who), b \in {Absent, tok}, p \in {Absent, ann} }
      \cup { [edge |-> Absent, portal |-> a, bearer |-> portal, persona |-> Absent] :
               a \in Carried(who) }

MCRequests ==
    UNION { { [ sender |-> who, route |-> route, peer |-> peer, edge |-> h.edge,
                portal |-> h.portal, bearer |-> h.bearer, persona |-> h.persona ] :
                h \in Headers(who) } :
            who \in {ann, bob, Bot}, peer \in {"loopback", "remote", "proxied"},
            route \in (EndUserRoutes \ {"cases"}) \cup ServiceRoutes \cup OpenRoutes }
=============================================================================
