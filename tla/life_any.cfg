\* Entry points that load, fail, repeat or misname a plugin, and two plugin objects;
\* binding, lookup and the plugin author may fail.
SPECIFICATION LifecycleSpec
CONSTANTS
    Exts = {e1, e2}
    Names = {n1, n2, n3}
    Packages = {"", "pkg"}
    Package <- TwoPackages
    PyClasses = {pyA, pyB, pyC}
    DecafPython = DecafPython
    Null = Null
    PluginLists <- SomePlugins
    LoaderLists <- SomeLoaders
    Unloadable = Unloadable
    Raises = Raises
    Instances = {i1, i2}
    Actions = {a1, a2}
    ProgramNames = {n2}
    BindMayFail = TRUE
    LookupMayFail = TRUE
    UserMayRaise = TRUE
    e1 = e1
    e2 = e2
    n1 = n1
    n2 = n2
    n3 = n3
    pyA = pyA
    pyB = pyB
    pyC = pyC
SYMMETRY Symmetry
INVARIANTS
    LifecycleTypeOK
    DoneMeansRegistered
    FirstRegistrationWins
    RegisteredInOrder
    NeverHalfWired
    ActionsReleased
