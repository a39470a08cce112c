CONSTANTS
    staff = staff
    vip = vip
    resend = resend
    brevo = brevo
    none = none
    Handlers = {1, 2, 3}
    Scenes <- MCScenes
    GroupIds = {1, 2}
    AgentIds = {1, 2}
    DocIds = {1, 2}
    Tags = {staff, vip}
    TagLists <- MCTagLists
    Names = {staff, vip}
    AgentLimit = 2
    Keyed = {"email"}
    Providers = {resend, brevo}
    EnvSecret = FALSE
    MaxSecrets = 3
    UserIds = {1, 2, 3}
    Addresses = {"a", "b", "c"}
    MaxPasswords = 5
    None = none
SPECIFICATION Spec
INVARIANTS
    TypeOK ScopeHolds SettingsKept SetupOnce AdminRemains PasswordSpentOnce
CHECK_DEADLOCK FALSE
