---------------------------- MODULE PostureProofs ----------------------------
(***************************************************************************)
(* What the posture of a process guarantees in every environment and for   *)
(* every request.  A process serves only from an environment that it did   *)
(* not refuse, with what it decided from it, and every answer is that of   *)
(* AnswerTo: from there each property is one of the pure decisions.        *)
(***************************************************************************)
EXTENDS Posture, TLAPS

(* The inductive invariant: what was decided at boot still stands, and an  *)
(* answer is the one due to the request at hand.                           *)
IInv ==
    /\ env \in Environments
    /\ phase = "serving" => posture = Decided(env) /\ ~RefusesToBoot(env)
    /\ answer # Absent =>
         /\ phase = "serving" /\ request \in Requests
         /\ answer = AnswerTo(env, posture, request)

(* Every step of the process keeps it.                                     *)
THEOREM PostureInvariance == Spec => []IInv
<1>1. Init => IInv
  BY DEF Init, IInv
<1>2. IInv /\ [Next]_vars => IInv'
  <2> SUFFICES ASSUME IInv, [Next]_vars PROVE IInv'
    OBVIOUS
  <2>1. CASE RefuseToBoot
    BY <2>1 DEF RefuseToBoot, IInv
  <2>2. CASE Boot
    BY <2>2 DEF Boot, IInv
  <2>3. CASE Answer
    BY <2>3 DEF Answer, IInv
  <2>4. CASE Close
    BY <2>4 DEF Close, IInv
  <2>5. CASE UNCHANGED vars
    BY <2>5 DEF vars, IInv
  <2> QED
    BY <2>1, <2>2, <2>3, <2>4, <2>5 DEF Next
<1> QED
  BY <1>1, <1>2, PTL DEF Spec

-----------------------------------------------------------------------------

(* Only the two profiles behind the edge bind an adapter that verifies.    *)
LEMMA VerifyingProfiles ==
    ASSUME NEW p \in RuntimeProfiles
    PROVE  /\ DeclaredEndUserAuth[IdentityBinding[p]] = "verified" => p \in {"gcp", "platform"}
           /\ IdentityBinding[p] = "iap" <=> p \in {"gcp", "platform"}
           /\ p \in IapEdgeProfiles <=> p \in {"gcp", "platform"}
  BY DEF RuntimeProfiles, DeclaredEndUserAuth, IdentityBinding, IapEdgeProfiles

(* A process that boots has a profile that something binds.                *)
LEMMA BootedProfile ==
    ASSUME NEW e, ~RefusesToBoot(e)
    PROVE  ResolveProfile(e).profile \in RuntimeProfiles
  BY DEF RefusesToBoot, ProfileRefused, ResolveProfile, RuntimeProfiles

(* The guard stands down for a verifying profile that somebody chose only. *)
LEMMA VerifiedMeansEdge ==
    ASSUME NEW e, ~RefusesToBoot(e), EndUserAuthenticated(e)
    PROVE  e.profile \in {"gcp", "platform"} /\ ~SettingsFail(e)
<1>1. ~SettingsFail(e)
  BY DEF EndUserAuthenticated, EndUserAuthKind
<1>2. ResolveProfile(e).profile \in {"gcp", "platform"}
  BY <1>1, BootedProfile, VerifyingProfiles DEF EndUserAuthenticated, EndUserAuthKind
<1> QED
  BY <1>1, <1>2 DEF EndUserAuthenticated, ResolveProfile

(* Nobody is served as anybody without a chosen profile.                   *)
LEMMA UnsetServesNobody ==
    ASSUME NEW e, NEW r, ~RefusesToBoot(e), e.profile = Unset,
           Route(e, Decided(e), r).status = 200
    PROVE  r.route \notin EndUserRoutes \cup ServiceRoutes \cup {"personas"}
<1>1. /\ Decided(e).choice = ResolveProfile(e)
      /\ ~ResolveProfile(e).explicit /\ ResolveProfile(e).profile = "local"
  BY DEF Decided, ResolveProfile
<1>2. IdentityBinding["local"] = "personas"
  BY DEF IdentityBinding, RuntimeProfiles
<1>3. GetPrincipal(e, ResolveProfile(e), r).status # 200
  BY <1>1, <1>2 DEF GetPrincipal, PersonaResolve, Refused
<1>4. RequireServiceCaller(e, ResolveProfile(e), Decided(e).callers, r).status # 200
  BY <1>1 DEF RequireServiceCaller, Refused
<1>5. Personas(e, ResolveProfile(e)).status # 200
  BY <1>1 DEF Personas, Refused
<1>6. CASE r.route \in EndUserRoutes
  BY <1>1, <1>3, <1>6 DEF Route, FromConsole, EndUserRoutes
<1>7. CASE r.route \in ServiceRoutes
  BY <1>1, <1>4, <1>7 DEF Route, FromConsole, EndUserRoutes, ServiceRoutes
<1>8. CASE r.route = "personas"
  BY <1>1, <1>5, <1>8 DEF Route, EndUserRoutes
<1> QED
  BY <1>6, <1>7, <1>8

(* Who is not on loopback meets a verifying profile or the guard; without  *)
(* a chosen profile nobody acts as anybody: in every environment.          *)
THEOREM ExposureNeedsConsent == Spec => []ConsentBoundsExposure
<1>1. IInv => ConsentBoundsExposure
  <2> SUFFICES ASSUME IInv, IsServed PROVE ConsentBoundsExposure
    BY DEF ConsentBoundsExposure
  <2>1. /\ posture = Decided(env) /\ ~RefusesToBoot(env)
        /\ answer = AnswerTo(env, posture, request) /\ answer.status = 200
    BY DEF IInv, IsServed
  <2>2. ~Exposed(env, posture, request) /\ Route(env, posture, request).status = 200
    BY <2>1 DEF AnswerTo, Refused
  <2>3. IsVisitor => env.profile \in {"gcp", "platform"} /\ ~SettingsFail(env)
    BY <2>1, <2>2, VerifiedMeansEdge DEF IsVisitor, Exposed, Decided
  <2>4. env.profile = Unset => request.route \notin EndUserRoutes \cup ServiceRoutes \cup {"personas"}
    BY <2>1, <2>2, UnsetServesNobody
  <2>5. request.route \in EndUserRoutes \cup ServiceRoutes \cup OpenRoutes
    BY RequestAssumption DEF IInv, IsServed, RequestAssumption
  <2> QED
    BY <2>3, <2>4, <2>5 DEF ConsentBoundsExposure, OpenRoutes
<1> QED
  BY <1>1, PostureInvariance, PTL

-----------------------------------------------------------------------------

(* Whoever a verified assertion of a request names has sent that request.  *)
LEMMA VerifiedNamesSender ==
    ASSUME NEW e, NEW r \in Requests, Verified(e, SelectAssertion(r))
    PROVE  SelectAssertion(r).email = r.sender
  BY GenuineAssertions DEF GenuineAssertions, Verified, SelectAssertion

(* An end user whom the edge's adapter resolves is the sender.             *)
LEMMA ResolvedIsSender ==
    ASSUME NEW e, NEW r \in Requests, IapResolve(e, r).status = 200
    PROVE  /\ IapResolve(e, r).actor = r.sender
           /\ IapResolve(e, r).tenant = e.entitlements[r.sender].tenant
<1>1. Verified(e, SelectAssertion(r)) /\ IapResolve(e, r) =
        Served(SelectAssertion(r).email, e.entitlements[SelectAssertion(r).email].tenant)
  BY DEF IapResolve, Refused
<1> QED
  BY <1>1, VerifiedNamesSender DEF Served

(* A caller that the service intake admits is the sender, and reviewed.    *)
LEMMA AdmittedIsReviewed ==
    ASSUME NEW e, NEW callers, NEW r \in Requests,
           RequireIapMachineCaller(e, callers, r).status = 200
    PROVE  /\ RequireIapMachineCaller(e, callers, r).actor = Lower[r.sender]
           /\ Lower[r.sender] \in callers
<1>1. /\ Verified(e, SelectAssertion(r)) /\ Lower[SelectAssertion(r).email] \in callers
      /\ RequireIapMachineCaller(e, callers, r) =
           Served(Lower[SelectAssertion(r).email], Absent)
  BY DEF RequireIapMachineCaller, Refused
<1> QED
  BY <1>1, VerifiedNamesSender DEF Served

(* The list of callers that a process boots with names service accounts.   *)
LEMMA CallersAreAccounts ==
    ASSUME NEW e, ~RefusesToBoot(e), NEW a \in ServiceCallers(e)
    PROVE  a \in ServiceAccounts /\ \E entry \in e.callers : Lower[entry] = a
<1>1. e.callers \notin {Unset, Emptied, Malformed}
  BY DEF RefusesToBoot, CallersRefused, ServiceCallers
<1>2. PICK entry \in e.callers : a = Lower[entry]
  BY <1>1 DEF ServiceCallers
<1>3. Lower[entry] \in ServiceAccounts
  BY <1>1, <1>2 DEF RefusesToBoot, CallersRefused
<1> QED
  BY <1>2, <1>3

(* Behind the edge everybody acts as themselves, and only reviewed service *)
(* accounts pass the service intake: in every environment.                 *)
THEOREM NobodyIsImpersonated == Spec => []CallersAreThemselves
<1>1. IInv => CallersAreThemselves
  <2> SUFFICES ASSUME IInv, IsServed, env.profile \in {"gcp", "platform"}
               PROVE  CallersAreThemselves
    BY DEF CallersAreThemselves
  <2>1. /\ posture = Decided(env) /\ ~RefusesToBoot(env) /\ request \in Requests
        /\ answer = AnswerTo(env, posture, request) /\ answer.status = 200
    BY DEF IInv, IsServed
  <2>2. answer = Route(env, posture, request)
    BY <2>1 DEF AnswerTo, Refused
  <2>3. env.profile # Unset
    BY PostureAssumption DEF PostureAssumption, RuntimeProfiles
  <2>4. /\ posture.choice.profile = env.profile /\ posture.choice.explicit
        /\ posture.callers = ServiceCallers(env)
    BY <2>1, <2>3 DEF Decided, ResolveProfile
  <2>5. env.profile \in IapEdgeProfiles /\ IdentityBinding[env.profile] = "iap"
    BY VerifyingProfiles DEF RuntimeProfiles
  <2>6. CASE request.route \in EndUserRoutes
    <3>1. answer = GetPrincipal(env, posture.choice, request)
      BY <2>1, <2>2, <2>6 DEF Route, FromConsole, Refused
    <3>2. answer = IapResolve(env, request)
      BY <2>1, <2>4, <2>5, <3>1 DEF GetPrincipal, Refused
    <3> QED
      BY <2>1, <2>6, <3>2, ResolvedIsSender
         DEF CallersAreThemselves, EndUserRoutes, ServiceRoutes
  <2>7. CASE request.route \in ServiceRoutes
    <3>1. answer = RequireServiceCaller(env, posture.choice, posture.callers, request)
      BY <2>1, <2>2, <2>7 DEF Route, FromConsole, Refused, ServiceRoutes, EndUserRoutes
    <3>2. answer = RequireIapMachineCaller(env, posture.callers, request)
      BY <2>4, <2>5, <3>1 DEF RequireServiceCaller
    <3>3. answer.actor = Lower[request.sender] /\ answer.actor \in ServiceCallers(env)
      BY <2>1, <2>4, <3>2, AdmittedIsReviewed
    <3> QED
      BY <2>1, <2>7, <3>3, CallersAreAccounts
         DEF CallersAreThemselves, EndUserRoutes, ServiceRoutes
  <2>8. CASE request.route \notin EndUserRoutes \cup ServiceRoutes
    BY <2>8 DEF CallersAreThemselves
  <2> QED
    BY <2>6, <2>7, <2>8
<1> QED
  BY <1>1, PostureInvariance, PTL

-----------------------------------------------------------------------------

(* What an authentication serves was served under sound settings, or has   *)
(* still to pass FromConsole.                                              *)
LEMMA ConsoleNeedsSettings ==
    ASSUME NEW e, NEW choice, NEW a, FromConsole(e, choice, a).status = 200
    PROVE  ~SettingsFail(e) /\ e.policy # Malformed
  BY DEF FromConsole, Refused

(* Queue and cases are out of reach under unsound settings: in every       *)
(* environment, though the process boots.                                  *)
THEOREM DataIsSound == Spec => []DataNeedsSoundSettings
<1>1. IInv => DataNeedsSoundSettings
  <2> SUFFICES ASSUME IInv, IsServed,
                      request.route \in EndUserRoutes \cup {"service_reviews"}
               PROVE  DataNeedsSoundSettings
    BY DEF DataNeedsSoundSettings
  <2>1. answer = Route(env, posture, request) /\ answer.status = 200
    BY DEF IInv, IsServed, AnswerTo, Refused
  <2>2. ~SettingsFail(env) /\ env.policy # Malformed
    BY <2>1, ConsoleNeedsSettings DEF Route
  <2> QED
    BY <2>2 DEF SettingsFail, DataNeedsSoundSettings
<1> QED
  BY <1>1, PostureInvariance, PTL

(* What main() listens on and whom the guard lets in agree: in every       *)
(* environment.                                                            *)
THEOREM BoundsAlwaysAgree == Spec => []BoundsAgree
<1>1. IInv => BoundsAgree
  <2> SUFFICES ASSUME IInv, answer # Absent, env.launch = "main", posture.host = "all"
               PROVE  ~Exposed(env, posture, request)
    BY DEF BoundsAgree
  <2>1. posture = Decided(env) /\ ~RefusesToBoot(env)
    BY DEF IInv
  <2>2. BindHost(env) = "all" /\ ~BindRefused(env)
    BY <2>1 DEF Decided, RefusesToBoot
  <2>3. env.insecure_demo \/ StartBindProfile(env) # "local"
    BY <2>2 DEF BindRefused
  <2>4. env.insecure_demo \/ EndUserAuthenticated(env)
    BY <2>3 DEF StartBindProfile
  <2> QED
    BY <2>1, <2>4 DEF Exposed, Decided
<1> QED
  BY <1>1, PostureInvariance, PTL

-----------------------------------------------------------------------------

(* What a process decides does not depend on the service token.            *)
LEMMA TokenDecidesNothing ==
    ASSUME NEW e \in Environments, NEW t
    PROVE  LET b == [e EXCEPT !.token = t]
           IN  /\ RefusesToBoot(b) <=> RefusesToBoot(e)
               /\ Decided(b) = Decided(e)
               /\ SettingsFail(b) <=> SettingsFail(e)
<1> DEFINE b == [e EXCEPT !.token = t]
<1>1. /\ b.profile = e.profile /\ b.region = e.region /\ b.paths = e.paths
      /\ b.audience = e.audience /\ b.entitlements = e.entitlements
      /\ b.callers = e.callers /\ b.origins = e.origins /\ b.ancestors = e.ancestors
      /\ b.insecure_demo = e.insecure_demo /\ b.host = e.host /\ b.launch = e.launch
  BY EnvironmentAssumption DEF EnvironmentAssumption, Variables
<1> HIDE DEF b
<1>2. ResolveProfile(b) = ResolveProfile(e) /\ ServiceCallers(b) = ServiceCallers(e)
  BY <1>1 DEF ResolveProfile, ServiceCallers
<1>3. ProfileRefused(b) <=> ProfileRefused(e)
  BY <1>1 DEF ProfileRefused
<1>4. SettingsFail(b) <=> SettingsFail(e)
  BY <1>1, <1>3 DEF SettingsFail, Region
<1>5. EndUserAuthenticated(b) <=> EndUserAuthenticated(e)
  BY <1>2, <1>4 DEF EndUserAuthenticated, EndUserAuthKind
<1>6. StartBindProfile(b) = StartBindProfile(e)
  BY <1>2, <1>5 DEF StartBindProfile
<1>7. BindHost(b) = BindHost(e)
  BY <1>1, <1>6 DEF BindHost
<1>8. RefusesToBoot(b) <=> RefusesToBoot(e)
  BY <1>1, <1>3, <1>6, <1>7
     DEF RefusesToBoot, CallersRefused, OriginsRefused, HasWildcard, BindRefused
<1>9. EndUserAuthenticated(b) = EndUserAuthenticated(e)
  BY <1>5 DEF EndUserAuthenticated
<1>10. Decided(b) = Decided(e)
  BY <1>2, <1>7, <1>9 DEF Decided
<1> QED
  BY <1>4, <1>8, <1>10 DEF b

(* A service token changes no answer outside the service routes: in every  *)
(* environment and for every request.                                      *)
THEOREM TokenIsForServices == Spec => []ServiceTokenOpensNothing
<1>1. IInv => ServiceTokenOpensNothing
  <2> SUFFICES ASSUME IInv, answer # Absent, request.route \notin ServiceRoutes
               PROVE  LET bare == [env EXCEPT !.token = Unset]
                      IN  /\ ~RefusesToBoot(bare) /\ BindHost(bare) = posture.host
                          /\ AnswerTo(bare, Decided(bare), request) = answer
    BY DEF ServiceTokenOpensNothing
  <2> DEFINE bare == [env EXCEPT !.token = Unset]
  <2>1. /\ env \in Environments /\ posture = Decided(env) /\ ~RefusesToBoot(env)
        /\ answer = AnswerTo(env, posture, request)
    BY DEF IInv
  <2>2. /\ ~RefusesToBoot(bare) /\ Decided(bare) = posture
        /\ SettingsFail(bare) <=> SettingsFail(env)
    BY <2>1, TokenDecidesNothing
  <2>3. /\ bare.policy = env.policy /\ bare.entitlements = env.entitlements
        /\ bare.audience = env.audience /\ bare.insecure_demo = env.insecure_demo
    BY <2>1, EnvironmentAssumption DEF EnvironmentAssumption, Variables
  <2> HIDE DEF bare
  <2>4. GetPrincipal(bare, posture.choice, request) = GetPrincipal(env, posture.choice, request)
    BY <2>2, <2>3 DEF GetPrincipal, IapResolve, Verified, Entitled
  <2>5. Personas(bare, posture.choice) = Personas(env, posture.choice)
    BY <2>2, <2>3 DEF Personas
  <2>6. \A a : FromConsole(bare, posture.choice, a) = FromConsole(env, posture.choice, a)
    BY <2>2, <2>3 DEF FromConsole
  <2>7. Route(bare, posture, request) = Route(env, posture, request)
    BY <2>2, <2>4, <2>5, <2>6 DEF Route, ServiceRoutes
  <2>8. Exposed(bare, posture, request) <=> Exposed(env, posture, request)
    BY <2>3 DEF Exposed
  <2>9. AnswerTo(bare, Decided(bare), request) = answer
    BY <2>1, <2>2, <2>7, <2>8 DEF AnswerTo
  <2>10. BindHost(bare) = posture.host
    BY <2>2 DEF Decided
  <2> QED
    BY <2>2, <2>9, <2>10 DEF bare
<1> QED
  BY <1>1, PostureInvariance, PTL
=============================================================================
