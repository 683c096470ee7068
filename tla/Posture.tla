------------------------------- MODULE Posture -------------------------------
(***************************************************************************)
(* The posture of a console process: what it decides from its environment  *)
(* when it boots (config.py and the module scope of api/app.py), and whom  *)
(* it then answers.                                                        *)
(*                                                                         *)
(* Profile, machine callers, origins and the exposure guard are decided    *)
(* while app.py is imported and kept; the settings, and with them region,  *)
(* paths, audience and entitlements, are loaded on the first request that  *)
(* needs the container, and the service token is read on every request.    *)
(*                                                                         *)
(*     down --Boot--> serving --Answer, Close--> serving                   *)
(*     down --RefuseToBoot--> refused                                      *)
(*                                                                         *)
(* A variable of the environment has three states: Unset, Emptied (set to  *)
(* nothing), or a value.                                                   *)
(***************************************************************************)
EXTENDS FiniteSets

CONSTANTS
    Unset, Emptied, Malformed,  \* what a variable holds if not a value
    Regions, HomeRegion,        \* the residency allowlist, and its default
    Wildcards,                  \* the origins that stand for any origin
    Addresses,                  \* e-mail addresses of people and services
    ServiceAccounts,            \* those that are a service account's
    Lower,                      \* what lower-casing makes of an address
    PersonaActors,              \* the seeded personas and their tenants
    Absent,                     \* a header that was not sent, or names nobody
    Environments,               \* the environments a process is started in
    Requests                    \* the requests that arrive

RuntimeProfiles == {"local", "gcp", "platform", "onprem"}

EndUserRoutes == {"reviews", "cases"}
ServiceRoutes == {"service_reviews", "audit_ping"}
OpenRoutes    == {"workflows", "healthz", "personas"}

ASSUME PostureAssumption ==
    /\ HomeRegion \in Regions
    /\ ServiceAccounts \subseteq Addresses
    /\ Lower \in [Addresses -> Addresses]
    /\ Absent \notin Addresses \cup DOMAIN PersonaActors
    /\ Unset \notin RuntimeProfiles

(* The variables of the environment; `paths' stands for the database, the  *)
(* audit log, its anchor and the policy, `policy' for what is found there. *)
Variables == {"profile", "region", "paths", "policy", "audience", "entitlements", "callers",
              "token", "origins", "ancestors", "insecure_demo", "host", "launch"}

ASSUME EnvironmentAssumption == \A e \in Environments : DOMAIN e = Variables

ASSUME RequestAssumption ==
    \A r \in Requests : r.route \in EndUserRoutes \cup ServiceRoutes \cup OpenRoutes

(* What Google signs names the sender: nobody holds another's assertion.   *)
ASSUME GenuineAssertions ==
    \A r \in Requests : \A a \in {r.edge, r.portal} \ {Absent} :
      a.genuine => a.email = r.sender

(* The identity adapter each profile binds, and what it declares of itself.*)
IdentityBinding ==
    [p \in RuntimeProfiles |->
       IF p = "local" THEN "personas" ELSE IF p = "onprem" THEN "placeholder" ELSE "iap"]

DeclaredEndUserAuth ==
    [ iap |-> "verified", personas |-> "client-asserted", placeholder |-> "unimplemented" ]

IapEdgeProfiles == {p \in RuntimeProfiles : IdentityBinding[p] = "iap"}

-----------------------------------------------------------------------------
(* Boot. *)

ResolveProfile(env) ==
    [ profile  |-> IF env.profile = Unset THEN "local" ELSE env.profile,
      explicit |-> env.profile # Unset ]

ProfileRefused(env) == env.profile \notin RuntimeProfiles \cup {Unset}

ExposureProfile(choice) == IF choice.explicit THEN choice.profile ELSE "unconfigured"
BindProfile(choice)     == IF choice.explicit THEN choice.profile ELSE "local"

(* Mutant: any address will do.                                            *)
CallersRefused_AnyAddress(env) ==
    \/ env.callers \in {Emptied, Malformed, {}}
    \/ /\ env.callers \notin {Unset, Emptied, Malformed}
       /\ ~(env.callers \subseteq Addresses)

(* Emptied, not a list, empty, or one entry is not a service account's.    *)
CallersRefused(env) ==
    \/ env.callers \in {Emptied, Malformed, {}}
    \/ /\ env.callers \notin {Unset, Emptied, Malformed}
       /\ \E entry \in env.callers : entry \notin Addresses \/ Lower[entry] \notin ServiceAccounts

ServiceCallers(env) ==
    IF env.callers = Unset THEN {} ELSE {Lower[entry] : entry \in env.callers}

(* An emptied CORS list names no origin; emptied ancestors are refused.    *)
HasWildcard(origins) == origins \notin {Unset, Emptied} /\ origins \cap Wildcards # {}
OriginsRefused(env) ==
    HasWildcard(env.origins) \/ HasWildcard(env.ancestors) \/ env.ancestors = Emptied

Region(env) == IF env.region = Unset THEN HomeRegion ELSE env.region

(* Mutant: an out-of-country region is let pass.                           *)
SettingsFail_AnyRegion(env) ==
    \/ ProfileRefused(env)
    \/ Emptied \in {env.region, env.paths, env.audience, env.entitlements}

(* Settings.load raises: a variable is emptied, or the region is abroad.   *)
SettingsFail(env) ==
    \/ ProfileRefused(env)
    \/ Emptied \in {env.region, env.paths, env.audience, env.entitlements}
    \/ Region(env) \notin Regions

(* A failure to load the settings is read as the weakest answer here.      *)
EndUserAuthKind(env) ==
    IF SettingsFail(env) THEN "client-asserted"
    ELSE DeclaredEndUserAuth[IdentityBinding[ResolveProfile(env).profile]]

(* Mutant: a service token authenticates the end users as well.            *)
EndUserAuthenticated_ByToken(env) ==
    /\ ResolveProfile(env).explicit
    /\ EndUserAuthKind(env) = "verified" \/ env.token # Unset

EndUserAuthenticated(env) ==
    ResolveProfile(env).explicit /\ EndUserAuthKind(env) = "verified"

(* Mutant: the start-up bound keys off the profile alone.                  *)
StartBindProfile_ProfileOnly(env) == BindProfile(ResolveProfile(env))

StartBindProfile(env) ==
    IF EndUserAuthenticated(env) THEN BindProfile(ResolveProfile(env)) ELSE "local"

(* main() confines "local" to loopback; an uvicorn command line does not.  *)
BindHost(env) ==
    IF env.host # Unset THEN env.host
    ELSE IF env.launch = "main" /\ StartBindProfile(env) # "local" THEN "all" ELSE "loopback"

BindRefused(env) ==
    /\ env.launch = "main" /\ StartBindProfile(env) = "local"
    /\ BindHost(env) = "all" /\ ~env.insecure_demo

RefusesToBoot(env) ==
    ProfileRefused(env) \/ CallersRefused(env) \/ OriginsRefused(env) \/ BindRefused(env)

(* What the process has decided once app.py is imported and listens.       *)
Decided(env) ==
    [ choice   |-> ResolveProfile(env),   callers |-> ServiceCallers(env),
      verified |-> EndUserAuthenticated(env), host |-> BindHost(env) ]

-----------------------------------------------------------------------------
(* Identity.  A refusal is a status; whoever is served acts as somebody.   *)

Refused(status) == [status |-> status, actor |-> Absent, tenant |-> Absent]
Served(actor, tenant) == [status |-> 200, actor |-> actor, tenant |-> tenant]
Open == Served(Absent, Absent)

(* The edge's own header before the one the portal forwards.               *)
SelectAssertion(r) == IF r.edge # Absent THEN r.edge ELSE r.portal

(* Signature, algorithm, issuer and required claims are `genuine'.         *)
Verified(env, a) ==
    a # Absent /\ env.audience # Unset /\ a.genuine /\ a.audience = env.audience

(* The reviewed entry names a tenant and lists groups, if only none, and   *)
(* the hosted domain is the one it expects.                                *)
Entitled(env, a) ==
    /\ env.entitlements # Unset
    /\ a.email \in DOMAIN env.entitlements
    /\ LET e == env.entitlements[a.email]
       IN  e.tenant # Absent /\ e.principals # Malformed /\ e.domain \in {Absent, a.domain}

IapResolve(env, r) ==
    LET a == SelectAssertion(r)
    IN  IF env.entitlements # Malformed /\ Verified(env, a) /\ Entitled(env, a)
          THEN Served(a.email, env.entitlements[a.email].tenant)
          ELSE Refused(401)

PersonaResolve(choice, r) ==
    IF choice.explicit /\ r.persona \in DOMAIN PersonaActors
      THEN Served(r.persona, PersonaActors[r.persona])
      ELSE Refused(401)

GetPrincipal(env, choice, r) ==
    IF SettingsFail(env) THEN Refused(500)
    ELSE IF IdentityBinding[choice.profile] = "iap" THEN IapResolve(env, r)
    ELSE IF IdentityBinding[choice.profile] = "personas" THEN PersonaResolve(choice, r)
    ELSE Refused(501)

(* The deployment's faults first, then the caller's; no bearer is read.    *)
RequireIapMachineCaller(env, callers, r) ==
    LET a == SelectAssertion(r)
    IN  IF SettingsFail(env) THEN Refused(500)
        ELSE IF env.entitlements = Malformed \/ env.audience = Unset THEN Refused(503)
        ELSE IF ~Verified(env, a) THEN Refused(401)
        ELSE IF Lower[a.email] \notin callers THEN Refused(403)
        ELSE Served(Lower[a.email], Absent)

(* The shared secret of hex_service_kit: open under `local' without one.   *)
SharedSecret(env, choice, r) ==
    IF env.token = Unset
      THEN IF ExposureProfile(choice) = "local" THEN Open ELSE Refused(503)
      ELSE IF r.bearer = env.token THEN Open ELSE Refused(401)

RequireServiceCaller(env, choice, callers, r) ==
    IF ~choice.explicit THEN Refused(401)
    ELSE IF choice.profile \in IapEdgeProfiles THEN RequireIapMachineCaller(env, callers, r)
    ELSE SharedSecret(env, choice, r)

(* A handler that needs the console, once its caller is authenticated: the *)
(* container, its routing policy and its stores must be there.             *)
FromConsole(env, choice, answer) ==
    IF answer.status # 200 THEN answer
    ELSE IF SettingsFail(env) \/ env.policy = Malformed \/ choice.profile = "onprem"
           THEN Refused(500)
    ELSE answer

(* The adapter refuses to be built: seeded personas without a choice, or   *)
(* entitlements that do not parse.                                         *)
Personas(env, choice) ==
    IF SettingsFail(env) THEN Refused(500)
    ELSE IF ~choice.explicit THEN Refused(503)
    ELSE IF IdentityBinding[choice.profile] = "iap" /\ env.entitlements = Malformed
           THEN Refused(503)
    ELSE Open

Route(env, posture, r) ==
    LET caller == RequireServiceCaller(env, posture.choice, posture.callers, r)
    IN  IF r.route \in EndUserRoutes
          THEN FromConsole(env, posture.choice, GetPrincipal(env, posture.choice, r))
        ELSE IF r.route = "service_reviews" THEN FromConsole(env, posture.choice, caller)
        ELSE IF r.route = "audit_ping" THEN caller
        ELSE IF r.route = "personas" THEN Personas(env, posture.choice)
        ELSE IF r.route = "healthz" /\ SettingsFail(env) THEN Refused(500)
        ELSE Open

(* Mutant: a peer behind a proxy passes for the proxy.                     *)
Exposed_DirectOnly(env, posture, r) ==
    ~posture.verified /\ ~env.insecure_demo /\ r.peer = "remote"

(* The outermost middleware turns a peer away that is not on loopback.     *)
Exposed(env, posture, r) ==
    ~posture.verified /\ ~env.insecure_demo /\ r.peer # "loopback"

AnswerTo(env, posture, r) ==
    IF Exposed(env, posture, r) THEN Refused(503) ELSE Route(env, posture, r)

-----------------------------------------------------------------------------
VARIABLES env, phase, posture, request, answer

vars == <<env, phase, posture, request, answer>>

Init ==
    /\ env \in Environments
    /\ phase = "down" /\ posture = Absent /\ request = Absent /\ answer = Absent

RefuseToBoot ==
    /\ phase = "down" /\ RefusesToBoot(env)
    /\ phase' = "refused"
    /\ UNCHANGED <<env, posture, request, answer>>

Boot ==
    /\ phase = "down" /\ ~RefusesToBoot(env)
    /\ phase' = "serving"
    /\ posture' = Decided(env)
    /\ UNCHANGED <<env, request, answer>>

(* A process on loopback is out of a remote peer's reach.                  *)
Answer ==
    /\ phase = "serving" /\ answer = Absent
    /\ \E r \in Requests :
         /\ r.peer = "remote" => posture.host = "all"
         /\ request' = r
         /\ answer' = AnswerTo(env, posture, r)
    /\ UNCHANGED <<env, phase, posture>>

(* The response is sent; nothing of it is kept.                            *)
Close ==
    /\ answer # Absent
    /\ request' = Absent /\ answer' = Absent
    /\ UNCHANGED <<env, phase, posture>>

Next == RefuseToBoot \/ Boot \/ Answer \/ Close

Spec == Init /\ [][Next]_vars

-----------------------------------------------------------------------------
IsServed == answer # Absent /\ answer.status = 200
IsVisitor == request.peer # "loopback" /\ ~env.insecure_demo

(* Whoever is not on loopback is answered only by a process that somebody  *)
(* chose a verifying profile for; without a chosen profile nobody acts as  *)
(* anybody, on loopback or in an insecure demo either (the exposure guard  *)
(* and the three states of REVIEW_PROFILE).                                *)
ConsentBoundsExposure ==
    IsServed =>
      /\ IsVisitor => env.profile \in {"gcp", "platform"} /\ ~SettingsFail(env)
      /\ env.profile = Unset => request.route \in {"workflows", "healthz"}

(* Behind the edge everybody acts as themselves: an end user as the sender *)
(* in the tenant that was reviewed for them, whatever headers they wrote,  *)
(* and a service as an account that was reviewed, never a person (the      *)
(* assertion is verified, the bearer is not read).                         *)
CallersAreThemselves ==
    IsServed /\ env.profile \in {"gcp", "platform"} =>
      /\ request.route \in EndUserRoutes =>
           /\ answer.actor = request.sender
           /\ answer.tenant = env.entitlements[request.sender].tenant
      /\ request.route \in ServiceRoutes =>
           /\ answer.actor = Lower[request.sender]
           /\ answer.actor \in ServiceAccounts
           /\ \E entry \in env.callers : Lower[entry] = answer.actor

(* A service token decides about service routes and about nothing else:    *)
(* without it every other request would be answered the same, by a process *)
(* that listens on the same host (what is not in _END_USER_AUTHENTICATED). *)
ServiceTokenOpensNothing ==
    answer # Absent /\ request.route \notin ServiceRoutes =>
      LET bare == [env EXCEPT !.token = Unset]
      IN  /\ ~RefusesToBoot(bare) /\ BindHost(bare) = posture.host
          /\ AnswerTo(bare, Decided(bare), request) = answer

(* No queue or case is read or written under an emptied setting, outside   *)
(* the residency allowlist or without a routing policy that parses, though *)
(* the process may boot and answer (Settings.load, routing_policy).        *)
DataNeedsSoundSettings ==
    IsServed /\ request.route \in EndUserRoutes \cup {"service_reviews"} =>
      /\ Region(env) \in Regions
      /\ Emptied \notin {env.region, env.paths, env.audience, env.entitlements}
      /\ env.policy # Malformed

(* The start-up bound and the guard agree: main() never listens on every   *)
(* interface only to have the guard refuse whoever comes in over it.       *)
BoundsAgree ==
    answer # Absent /\ env.launch = "main" /\ posture.host = "all" =>
      ~Exposed(env, posture, request)
=============================================================================
