\* Every posture of a process, and every request to it.
SPECIFICATION Spec
CONSTANTS
    Unset = Unset  Emptied = Emptied  Malformed = Malformed  Absent = Absent
    ann = ann  bob = bob  bot = bot  Bot = Bot
    home = home  abroad = abroad  aud = aud  other = other  tok = tok  portal = portal
    t1 = t1  t2 = t2  star = star
    Regions = {home}
    HomeRegion = home
    Wildcards = {star}
    Addresses = {ann, bob, bot, Bot}
    ServiceAccounts = {bot, Bot}
    Lower <- MCLower
    PersonaActors <- MCPersonas
    Environments <- MCEnvironments
    Requests <- MCRequests
INVARIANTS ConsentBoundsExposure CallersAreThemselves ServiceTokenOpensNothing DataNeedsSoundSettings BoundsAgree
\* A process that refused to boot stops.
CHECK_DEADLOCK FALSE
