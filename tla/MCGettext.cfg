CONSTANTS
    messages = messages
    app = app
    nodomain = nodomain
    default = default
    rel = rel
    nodir = nodir
    home = home
    utf8 = utf8
    latin1 = latin1
    nocs = nocs
    one = one
    two = two
    de = de
    fr = fr
    path = path
    fde = fde
    ffr = ffr
    fapp = fapp
    fhome = fhome
    nofile = nofile
    Domains = {messages, app}
    Messages = messages
    Place <- MCPlace
    NoDomain = nodomain
    DefaultDir = default
    Absolute = {}
    Relative = {rel}
    NoDir = nodir
    Dirs = {home, nodir}
    Codesets = {utf8, latin1}
    NoCodeset = nocs
    LocaleCodeset = utf8
    Envs <- MCEnvs
    PathNames = {path}
    LocaleNames = {de, fr, path}
    Secure = TRUE
    MsgIds = {one, two}
    Files <- MCFiles
    NoFile = nofile
    Chain <- MCChain
    Charset <- MCCharset
    CanOpen <- MCCanOpen
    CannotConvert <- MCCannot
    Variants <- MCVariants
    PluralIndex <- MCPluralIndex
    Calls <- MCCalls
    MaxOps = 4
    MaxFailures = 1
SPECIFICATION Spec
INVARIANTS
    TypeOK
    BindingsInOrder
    AnswersAreCurrent
PROPERTIES
    CallsAreAnswered
CHECK_DEADLOCK FALSE
