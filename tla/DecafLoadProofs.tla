---------------------------- MODULE DecafLoadProofs ----------------------------
(***************************************************************************)
(* Theorems about decaf_load, for any plugins, entry points and class path: *)
(* which registrations are in force, however it fails and is called again.  *)
(***************************************************************************)
EXTENDS DecafLoad, Integers, TLAPS

InLoad == pc \in {"loaders", "register"}

\* While an entry point's pairs are registered, todo is the rest of its list.
List == loaders[at - 1]
TodoInv ==
    pc = "register" => /\ at - 1 \in Called
                       /\ Len(todo) <= Len(List)
                       /\ \A k \in 1 .. Len(todo) : todo[k] = List[Len(List) - Len(todo) + k]

\* decaf_load has got past registration a.
Passed(a) == /\ a[1] < at
             /\ pc = "register" /\ a[1] = at - 1 => a[2] <= Len(List) - Len(todo)

InForce(a) == (\E c \in Classes : Drives(a, c)) /\ pluginTypes[Pair(a).name] = Pair(a).py

\* While decaf_load runs, the registrations it has passed are in force ...
PassedInv == InLoad => \A a \in Registrations : Passed(a) => InForce(a)

\* ... and no class has an initializer that is not from the first of its name
\* among them.
PassedOnlyInv ==
    InLoad => \A c \in Classes : initializer[c] # Null =>
                  \E a \in Registrations : Passed(a) /\ First(a) /\ Drives(a, c)

\* Once a generated class has an initializer, so has PyGhidraDecafPlugin, and
\* decaf_load will not get past it again.
BaseInv == /\ initializer[BaseClass] = Null => \A c \in Classes : initializer[c] = Null
           /\ InLoad => initializer[BaseClass] # Null

LoadInv == /\ TypeOK
           /\ TodoInv /\ PassedInv /\ PassedOnlyInv /\ BaseInv
           /\ DoneMeansRegistered /\ FirstRegistrationWins /\ (InLoad \/ RegisteredInOrder)
-----------------------------------------------------------------------------
\* A registration is an entry point that returned a list, and a place in it.
LEMMA RegistrationIs ==
    /\ \A a \in Registrations : /\ a[1] \in Called /\ a[2] \in DOMAIN loaders[a[1]]
                                /\ a = <<a[1], a[2]>>
    /\ \A k \in Called : \A j \in DOMAIN loaders[k] : <<k, j>> \in Registrations
  BY DEF Registrations

\* What an entry point returned is a list of registrations.
LEMMA CalledLists ==
    ASSUME TypeOK
    PROVE  /\ loaders \in LoaderLists /\ plugins \in Seq(Plugin)
           /\ Called \subseteq 1 .. Len(loaders) /\ Len(loaders) \in Nat
           /\ \A k \in Called : /\ loaders[k] \in Seq(Registration)
                                /\ DOMAIN loaders[k] = 1 .. Len(loaders[k])
                                /\ Len(loaders[k]) \in Nat
           /\ \A a \in Registrations : Pair(a) \in Registration
<1>1. /\ loaders \in Seq(Seq(Registration) \cup {Unloadable, Raises})
      /\ loaders \in LoaderLists /\ plugins \in Seq(Plugin)
  BY ListsAssumption DEF TypeOK
<1>2. \A k \in Called : k \in 1 .. Len(loaders) /\ loaders[k] \in Seq(Registration)
  BY <1>1 DEF Called
<1>3. \A k \in Called : DOMAIN loaders[k] = 1 .. Len(loaders[k]) /\ Len(loaders[k]) \in Nat
  BY <1>2
<1>4. \A a \in Registrations : Pair(a) \in Registration
  BY <1>2, RegistrationIs DEF Pair
<1> QED
  BY <1>1, <1>2, <1>3, <1>4

\* The class of a plugin that matches is one that can be generated.
LEMMA MatchClass ==
    ASSUME TypeOK, NEW n, NEW i, Match(n, i)
    PROVE  /\ i \in DOMAIN plugins /\ plugins[i] \in Plugin /\ plugins[i].name = n
           /\ JavaClass(plugins[i]) \in Classes /\ JavaClass(plugins[i]) # BaseClass
           /\ JavaClass(plugins[i])[2] = n
           /\ \A j : Match(n, j) => j = i
<1>1. i \in DOMAIN plugins /\ plugins[i] \in Plugin /\ plugins[i].name = n
  BY CalledLists DEF Match
<1>2. JavaClass(plugins[i]) \in Classes /\ JavaClass(plugins[i])[2] = n
  BY <1>1, PackageAssumption DEF Plugin, JavaClass, Classes
<1>3. \A j : Match(n, j) => j = i
  BY CalledLists DEF Match
<1> QED
  BY <1>1, <1>2, <1>3, PackageAssumption

\* What the host left does not change, and so neither do these.
LEMMA HostSame ==
    ASSUME UNCHANGED hostVars
    PROVE  /\ Called' = Called /\ Registrations' = Registrations
           /\ \A a : Pair(a)' = Pair(a) /\ First(a)' = First(a)
           /\ \A n, i : Match(n, i)' = Match(n, i)
  BY DEF hostVars, Called, Registrations, Pair, First, Match

\* Nor does what a registration drives, when the initializers stay.
LEMMA DrivesSame ==
    ASSUME UNCHANGED hostVars, NEW a, NEW c, initializer'[c] = initializer[c]
    PROVE  Drives(a, c)' = Drives(a, c)
<1>1. /\ \A n, i : Match(n, i)' = Match(n, i)
      /\ Pair(a)' = Pair(a) /\ plugins' = plugins
  BY HostSame DEF hostVars
<1> QED
  BY <1>1 DEF Drives

\* A step that leaves the initializers alone leaves what they say alone.
LEMMA SameInitializers ==
    ASSUME UNCHANGED hostVars, UNCHANGED initializer, BaseInv, FirstRegistrationWins,
           InLoad' => InLoad
    PROVE  BaseInv' /\ FirstRegistrationWins' /\ (RegisteredInOrder => RegisteredInOrder')
<1>1. \A a, c : Drives(a, c)' = Drives(a, c)
  BY DrivesSame
<1>2. \A a, b : Before(a, b)' = Before(a, b)
  BY DEF Before
<1> QED
  BY <1>1, <1>2, HostSame DEF BaseInv, FirstRegistrationWins, RegisteredInOrder

\* ---- the steps

\* The strengthening holds in the initial states.
LEMMA InitLoadInv == Init => LoadInv
<1> SUFFICES ASSUME Init PROVE LoadInv
  OBVIOUS
<1>1. classpath \subseteq Classes \cup {BaseClass}
  <2>1. plugins \in Seq(Plugin)
    BY ListsAssumption DEF Init
  <2>2. \A i \in DOMAIN plugins : Generated(plugins[i]) \in Classes
    <3> SUFFICES ASSUME NEW i \in DOMAIN plugins PROVE Generated(plugins[i]) \in Classes
      OBVIOUS
    <3>1. plugins[i] \in Plugin
      BY <2>1
    <3> QED
      BY <3>1, PackageAssumption DEF Plugin, Generated, Classes
  <2> QED
    BY <2>2 DEF Init
<1>2. TypeOK
  <2>1. loaders \in Seq(Seq(Registration) \cup {Unloadable, Raises})
    BY ListsAssumption DEF Init
  <2>2. 1 \in 1 .. Len(loaders) + 1
    BY <2>1
  <2> QED
    BY <1>1, <2>2 DEF Init, TypeOK
<1>3. \A c \in Classes \cup {BaseClass} : initializer[c] = Null
  BY DEF Init
<1>4. \A a \in Registrations, c \in Classes : ~Drives(a, c)
  <2>1. \A a \in Registrations : Pair(a).py # Null
    BY <1>2, CalledLists, NullAssumption DEF Registration
  <2> QED
    BY <1>3, <2>1 DEF Drives
<1> QED
  BY <1>2, <1>3, <1>4 DEF Init, LoadInv, TodoInv, InLoad, PassedInv, PassedOnlyInv, BaseInv,
     DoneMeansRegistered, FirstRegistrationWins, RegisteredInOrder

\* Every step keeps the types.
LEMMA StepTypeOK == TypeOK /\ Next => TypeOK'
<1> SUFFICES ASSUME TypeOK, Next PROVE TypeOK'
  OBVIOUS
<1>types. /\ todo \in Seq(Registration) /\ at \in 1 .. Len(loaders) + 1
          /\ Len(loaders) \in Nat
          /\ loaders \in Seq(Seq(Registration) \cup {Unloadable, Raises})
          /\ initializer \in [Classes \cup {BaseClass} -> PyClasses \cup {DecafPython, Null}]
          /\ pluginTypes \in [Names -> PyClasses \cup {Null}]
  BY ListsAssumption DEF TypeOK
<1>1. CASE SetDecafInitializer
  <2>1. initializer' \in [Classes \cup {BaseClass} -> PyClasses \cup {DecafPython, Null}]
    BY <1>1, <1>types DEF SetDecafInitializer, SetInitializer
  <2> QED
    BY <1>1, <1>types, <2>1 DEF TypeOK, SetDecafInitializer, hostVars
<1>6. CASE DecafInitializerFails
  BY <1>6, <1>types DEF TypeOK, DecafInitializerFails, Fail, hostVars
<1>7. CASE Again
  <2>1. at' \in 1 .. Len(loaders') + 1 /\ todo' \in Seq(Registration)
    BY <1>7, <1>types DEF Again, hostVars
  <2> QED
    BY <1>7, <2>1 DEF TypeOK, Again, hostVars
<1>2. CASE SkipUnloadable \/ LoaderRaises \/ EndLoader \/ Finish
  BY <1>2, <1>types DEF TypeOK, SkipUnloadable, AtLoader, LoaderRaises, EndLoader, Finish, Fail, hostVars
<1>3. CASE CallLoader
  <2>1. loaders[at] \in Seq(Registration)
    BY <1>3, <1>types DEF CallLoader, AtLoader
  <2> QED
    BY <1>3, <1>types, <2>1 DEF TypeOK, CallLoader, AtLoader, hostVars
<1>4. CASE Register
  <2>1. PICK r \in Registration, i \in DOMAIN plugins :
            Registering(r) /\ Match(r.name, i) /\ SetInitializer(JavaClass(plugins[i]), r.py)
    BY <1>4 DEF Register
  <2>2. r.name \in Names /\ r.py \in PyClasses
    BY DEF Registration
  <2>3. Tail(todo) \in Seq(Registration)
    BY <1>types, <2>1 DEF Registering
  <2>4. pluginTypes' \in [Names -> PyClasses \cup {Null}]
    BY <1>types, <2>1, <2>2 DEF Registering
  <2>5. initializer' \in [Classes \cup {BaseClass} -> PyClasses \cup {DecafPython, Null}]
    BY <1>types, <2>1, <2>2 DEF SetInitializer
  <2> QED
    BY <1>4, <2>3, <2>4, <2>5 DEF TypeOK, Register, hostVars
<1>5. CASE RegisterTwice \/ RegisterUnmatched \/ RegisterUnloadable
  <2>1. PICK r \in Registration : Registering(r)
    BY <1>5 DEF RegisterTwice, RegisterUnmatched, RegisterUnloadable
  <2>2. pluginTypes' \in [Names -> PyClasses \cup {Null}]
    BY <1>types, <2>1 DEF Registering, Registration
  <2> QED
    BY <1>5, <1>types, <2>2
    DEF TypeOK, RegisterTwice, RegisterUnmatched, RegisterUnloadable, Fail, hostVars
<1> QED
  BY <1>1, <1>2, <1>3, <1>4, <1>5, <1>6, <1>7 DEF Next, LoadStep

\* What a successful decaf_register does, with a for the registration it is at.
LEMMA Registered ==
    ASSUME LoadInv, Register
    PROVE  \E a \in Registrations, i \in DOMAIN plugins :
              /\ pc = "register" /\ todo # <<>>
              /\ a = <<at - 1, Len(List) - Len(todo) + 1>>
              /\ Match(Pair(a).name, i)
              /\ SetInitializer(JavaClass(plugins[i]), Pair(a).py)
              /\ pluginTypes' = [pluginTypes EXCEPT ![Pair(a).name] = Pair(a).py]
              /\ \A b \in Registrations : Before(b, a) => Passed(b)
              /\ \A b \in Registrations : Passed(b)' <=> (Passed(b) \/ b = a)
<1>1. PICK r \in Registration, i \in DOMAIN plugins :
          Registering(r) /\ Match(r.name, i) /\ SetInitializer(JavaClass(plugins[i]), r.py)
  BY DEF Register
<1> DEFINE k == at - 1
           n == Len(loaders[k])
           m == Len(todo)
           a == <<k, n - m + 1>>
<1>2. /\ pc = "register" /\ todo # <<>> /\ r = Head(todo) /\ todo' = Tail(todo)
      /\ UNCHANGED <<hostVars, pc, at>>
      /\ pluginTypes' = [pluginTypes EXCEPT ![r.name] = r.py]
  BY <1>1 DEF Register, Registering
<1>3. /\ todo \in Seq(Registration) /\ at \in Int /\ k \in Called
      /\ loaders[k] \in Seq(Registration) /\ DOMAIN loaders[k] = 1 .. n
      /\ m <= n /\ \A x \in 1 .. m : todo[x] = loaders[k][n - m + x]
  <2>1. /\ k \in Called /\ m <= n
        /\ \A x \in 1 .. m : todo[x] = loaders[k][n - m + x]
    BY <1>2 DEF LoadInv, TodoInv, List
  <2>2. todo \in Seq(Registration) /\ at \in 1 .. Len(loaders) + 1 /\ Len(loaders) \in Nat
    BY CalledLists DEF LoadInv, TypeOK
  <2>3. loaders[k] \in Seq(Registration) /\ DOMAIN loaders[k] = 1 .. n
    BY <2>1, CalledLists DEF LoadInv
  <2> QED
    BY <2>1, <2>2, <2>3
<1>4. /\ m \in Nat \ {0} /\ n \in Nat /\ r = todo[1] /\ Len(todo') = m - 1
  BY <1>2, <1>3
<1>5. a \in Registrations /\ Pair(a) = r
  <2>1. 1 \in 1 .. m /\ n - m + 1 \in 1 .. n
    BY <1>3, <1>4
  <2> QED
    BY <1>3, <1>4, <2>1, RegistrationIs DEF Pair
<1>6. \A b \in Registrations : b[1] \in Int /\ b[2] \in Int /\ b = <<b[1], b[2]>>
  BY RegistrationIs, CalledLists DEF LoadInv
<1>7. \A b \in Registrations : Passed(b) <=> b[1] < at /\ (b[1] = k => b[2] <= n - m)
  BY <1>2 DEF Passed, List
<1>8. \A b \in Registrations : Passed(b)' <=> b[1] < at /\ (b[1] = k => b[2] <= n - (m - 1))
  BY <1>2, <1>4 DEF Passed, List, hostVars
<1>9. \A b \in Registrations : Before(b, a) => Passed(b)
  BY <1>3, <1>4, <1>6, <1>7 DEF Before
<1>10. \A b \in Registrations : Passed(b)' <=> (Passed(b) \/ b = a)
  <2> SUFFICES ASSUME NEW b \in Registrations PROVE Passed(b)' <=> (Passed(b) \/ b = a)
    OBVIOUS
  <2>1. b = a <=> b[1] = k /\ b[2] = n - m + 1
    BY <1>6
  <2> QED
    BY <1>3, <1>4, <1>6, <1>7, <1>8, <2>1
<1> QED
  BY <1>1, <1>2, <1>5, <1>9, <1>10 DEF List

\* A successful decaf_register puts one more registration in force and takes
\* none out of it.
LEMMA StepRegister ==
    ASSUME LoadInv, Register
    PROVE  TodoInv' /\ PassedInv' /\ PassedOnlyInv' /\ BaseInv'
           /\ FirstRegistrationWins'
<1>1. PICK a \in Registrations, i \in DOMAIN plugins :
          /\ pc = "register" /\ todo # <<>>
          /\ a = <<at - 1, Len(List) - Len(todo) + 1>>
          /\ Match(Pair(a).name, i)
          /\ SetInitializer(JavaClass(plugins[i]), Pair(a).py)
          /\ pluginTypes' = [pluginTypes EXCEPT ![Pair(a).name] = Pair(a).py]
          /\ \A b \in Registrations : Before(b, a) => Passed(b)
          /\ \A b \in Registrations : Passed(b)' <=> (Passed(b) \/ b = a)
  BY Registered
<1>2. UNCHANGED <<hostVars, pc, at>> /\ todo' = Tail(todo)
  BY DEF Register
<1>d. PICK d \in Classes : d = JavaClass(plugins[i])
  BY <1>1, MatchClass DEF LoadInv
<1>3. /\ d # BaseClass /\ d[2] = Pair(a).name
      /\ \A j : Match(Pair(a).name, j) => j = i
  BY <1>1, <1>d, MatchClass DEF LoadInv
<1>4. /\ initializer[d] = Null /\ initializer'[d] = Pair(a).py /\ Pair(a).py # Null
      /\ \A c \in Classes \cup {BaseClass} : c # d => initializer'[c] = initializer[c]
      /\ pluginTypes'[Pair(a).name] = Pair(a).py
      /\ \A x \in Names : x # Pair(a).name => pluginTypes'[x] = pluginTypes[x]
  <2>1. Pair(a) \in Registration
    BY CalledLists DEF LoadInv
  <2>2. Pair(a).name \in Names /\ Pair(a).py \in PyClasses
    BY <2>1 DEF Registration
  <2>3. /\ initializer \in [Classes \cup {BaseClass} -> PyClasses \cup {DecafPython, Null}]
        /\ pluginTypes \in [Names -> PyClasses \cup {Null}]
    BY DEF LoadInv, TypeOK
  <2> QED
    BY <1>1, <1>d, <1>3, <2>2, <2>3, NullAssumption DEF SetInitializer
\* Nothing drove d, so what drove a class still does.
<1>5. \A b \in Registrations, c \in Classes :
          Drives(b, c) => c # d /\ Drives(b, c)' /\ Pair(b).name # Pair(a).name
  <2> SUFFICES ASSUME NEW b \in Registrations, NEW c \in Classes, Drives(b, c)
               PROVE  c # d /\ Drives(b, c)' /\ Pair(b).name # Pair(a).name
    OBVIOUS
  <2>1. Pair(b).py # Null
    BY CalledLists, NullAssumption DEF LoadInv, Registration
  <2>2. c # d
    BY <1>4, <2>1 DEF Drives
  <2>3. Drives(b, c)'
    BY <1>2, <1>4, <2>2, DrivesSame
  <2>4. Pair(b).name # Pair(a).name
    BY <1>d, <1>3, <2>2 DEF Drives
  <2> QED
    BY <2>2, <2>3, <2>4
<1>6. Drives(a, d)'
  <2>1. /\ \A x, j : Match(x, j)' = Match(x, j)
        /\ Pair(a)' = Pair(a) /\ plugins' = plugins
    BY <1>2, HostSame DEF hostVars
  <2>2. JavaClass(plugins[i])' = JavaClass(plugins[i])
    BY <2>1 DEF JavaClass
  <2> QED
    BY <1>1, <1>d, <1>4, <2>1, <2>2 DEF Drives
<1>7. \A b \in Registrations : Before(b, a) => Pair(b).name # Pair(a).name
  BY <1>1, <1>5 DEF LoadInv, PassedInv, InLoad, InForce
<1>8. First(a)
  BY <1>7 DEF First
<1>same. /\ Registrations' = Registrations /\ Called' = Called /\ loaders' = loaders
         /\ \A b : Pair(b)' = Pair(b) /\ First(b)' = First(b)
  BY <1>2, HostSame DEF hostVars
<1>9. TodoInv'
  <2>1. /\ at - 1 \in Called /\ Len(todo) <= Len(List)
        /\ \A k \in 1 .. Len(todo) : todo[k] = List[Len(List) - Len(todo) + k]
    BY <1>1 DEF LoadInv, TodoInv
  <2>2. todo \in Seq(Registration) /\ Len(List) \in Nat
    BY <2>1, CalledLists DEF LoadInv, TypeOK, List
  <2>3. List' = List
    BY <1>2, <1>same DEF List
  <2>4. /\ Len(todo') = Len(todo) - 1 /\ Len(todo) \in Nat \ {0}
        /\ \A k \in 1 .. Len(todo') : todo'[k] = todo[k + 1]
    BY <1>1, <1>2, <2>2
  <2>5. \A k \in 1 .. Len(todo') : todo'[k] = List[Len(List) - Len(todo') + k]
    <3> SUFFICES ASSUME NEW k \in 1 .. Len(todo')
                 PROVE  todo'[k] = List[Len(List) - Len(todo') + k]
      OBVIOUS
    <3>1. k + 1 \in 1 .. Len(todo)
      BY <2>4
    <3>2. Len(List) - Len(todo) + (k + 1) = Len(List) - Len(todo') + k
      BY <2>2, <2>4
    <3> QED
      BY <2>1, <2>4, <3>1, <3>2
  <2> QED
    BY <1>2, <1>same, <2>1, <2>2, <2>3, <2>4, <2>5 DEF TodoInv
<1>10. PassedInv'
  <2> SUFFICES ASSUME NEW b \in Registrations, Passed(b)' PROVE InForce(b)'
    BY <1>same DEF PassedInv
  <2>1. CASE b = a
    BY <1>3, <1>4, <1>6, <1>same, <2>1 DEF InForce
  <2>2. CASE b # a
    <3>1. InForce(b)
      BY <1>1, <2>2 DEF LoadInv, PassedInv, InLoad
    <3>2. PICK c \in Classes : Drives(b, c)
      BY <3>1 DEF InForce
    <3>3. Drives(b, c)' /\ Pair(b).name # Pair(a).name /\ Pair(b).name \in Names
      BY <1>5, <3>2, CalledLists DEF LoadInv, Registration
    <3>4. pluginTypes'[Pair(b).name] = Pair(b).py
      BY <1>4, <3>1, <3>3 DEF InForce
    <3> QED
      BY <1>same, <3>3, <3>4 DEF InForce
  <2> QED
    BY <2>1, <2>2
<1>11. PassedOnlyInv'
  <2> SUFFICES ASSUME NEW c \in Classes, initializer'[c] # Null
               PROVE  \E b \in Registrations : Passed(b)' /\ First(b) /\ Drives(b, c)'
    BY <1>same DEF PassedOnlyInv
  <2>1. CASE c = d
    BY <1>1, <1>6, <1>8, <2>1
  <2>2. CASE c # d
    <3>1. PICK b \in Registrations : Passed(b) /\ First(b) /\ Drives(b, c)
      BY <1>1, <1>4, <2>2 DEF LoadInv, PassedOnlyInv, InLoad
    <3> QED
      BY <1>1, <1>5, <3>1
  <2> QED
    BY <2>1, <2>2
<1>12. BaseInv'
  BY <1>1, <1>2, <1>3, <1>4 DEF LoadInv, BaseInv, InLoad
<1>13. FirstRegistrationWins'
  BY <1>1, <1>2, <1>11, <1>same DEF PassedOnlyInv, InLoad, FirstRegistrationWins
<1> QED
  BY <1>9, <1>10, <1>11, <1>12, <1>13

\* What is in force while decaf_load runs is in order.
LEMMA InLoadInOrder == LoadInv /\ InLoad => RegisteredInOrder
<1> SUFFICES ASSUME LoadInv, InLoad, NEW a \in Registrations, NEW b \in Registrations,
                    Before(a, b), First(b), NEW c \in Classes, Drives(b, c)
             PROVE  \E e \in Classes : Drives(a, e)
  BY DEF RegisteredInOrder
<1>int. \A x \in Registrations : x[1] \in Int /\ x[2] \in Int /\ x = <<x[1], x[2]>>
  BY RegistrationIs, CalledLists DEF LoadInv
<1>1. initializer[c] # Null
  BY CalledLists, NullAssumption DEF LoadInv, Registration, Drives
<1>2. PICK x \in Registrations : Passed(x) /\ First(x) /\ Drives(x, c)
  BY <1>1 DEF LoadInv, PassedOnlyInv
<1>3. c[2] = Pair(x).name /\ c[2] = Pair(b).name
  <2>1. PICK i : Match(Pair(x).name, i) /\ c = JavaClass(plugins[i])
    BY <1>2 DEF Drives
  <2>2. PICK j : Match(Pair(b).name, j) /\ c = JavaClass(plugins[j])
    BY DEF Drives
  <2> QED
    BY <2>1, <2>2, MatchClass DEF LoadInv
<1>4. x = b
  <2>1. ~Before(x, b) /\ ~Before(b, x)
    BY <1>2, <1>3 DEF First
  <2> QED
    BY <1>int, <2>1 DEF Before
<1>5. Passed(a)
  <2>1. at \in Int /\ (Len(List) - Len(todo) \in Int \/ pc # "register")
    BY CalledLists DEF LoadInv, TypeOK, TodoInv, List
  <2>2. at \in Int
    BY CalledLists DEF LoadInv, TypeOK
  <2> QED
    BY <1>2, <1>4, <1>int, <2>1, <2>2 DEF Passed, Before
<1> QED
  BY <1>5 DEF LoadInv, PassedInv, InForce

\* When all entry points are done, all registrations are passed.
LEMMA AllPassed ==
    ASSUME LoadInv, pc = "loaders", at > Len(loaders), NEW a \in Registrations
    PROVE  Passed(a)
  BY RegistrationIs, CalledLists DEF LoadInv, TypeOK, Passed

\* Every step keeps the strengthening.
LEMMA StepLoadInv == ASSUME LoadInv, Next PROVE LoadInv'
<1>type. TypeOK'
  BY StepTypeOK DEF LoadInv
<1>list. /\ Called \subseteq 1 .. Len(loaders) /\ Len(loaders) \in Nat
         /\ at \in 1 .. Len(loaders) + 1
         /\ \A a \in Registrations : a[1] \in Called /\ a[2] \in 1 .. Len(loaders[a[1]])
         /\ \A k \in Called : Len(loaders[k]) \in Nat /\ loaders[k] \in Seq(Registration)
  BY RegistrationIs, CalledLists DEF LoadInv, TypeOK
<1>place. \A a \in Registrations : a[1] \in 1 .. Len(loaders)
  BY <1>list
<1>1. CASE Register
  <2>1. pc = "register" /\ pc' = pc
    BY <1>1 DEF Register, Registering
  <2> QED
    BY <1>type, <1>1, <2>1, StepRegister DEF LoadInv, DoneMeansRegistered, InLoad
<1>2. CASE SetDecafInitializer
  <2>1. /\ UNCHANGED <<hostVars, pluginTypes>> /\ pc' = "loaders" /\ at' = 1
        /\ initializer[BaseClass] = Null /\ initializer'[BaseClass] = DecafPython
        /\ \A c \in Classes : initializer'[c] = initializer[c]
    BY <1>2, PackageAssumption DEF SetDecafInitializer, SetInitializer, LoadInv, TypeOK
  <2>2. \A c \in Classes : initializer'[c] = Null
    BY <2>1 DEF LoadInv, BaseInv
  <2>3. Registrations' = Registrations
    BY <2>1, HostSame
  <2>4. \A a \in Registrations : ~Passed(a)'
    <3> SUFFICES ASSUME NEW a \in Registrations PROVE ~(a[1] < at')
      BY DEF Passed
    <3> QED
      BY <2>1, <1>list, <1>place
  <2> QED
    BY <1>type, <2>1, <2>2, <2>3, <2>4, NullAssumption
    DEF LoadInv, TodoInv, PassedInv, PassedOnlyInv, BaseInv, InLoad, DoneMeansRegistered,
        FirstRegistrationWins
\* The other steps leave the initializers alone.
<1>3. CASE ~Register /\ ~SetDecafInitializer
  <2>1. UNCHANGED hostVars /\ UNCHANGED initializer /\ (InLoad' => InLoad)
    BY <1>3 DEF Next, LoadStep, DecafInitializerFails, SkipUnloadable, CallLoader, LoaderRaises,
       RegisterTwice, RegisterUnmatched, RegisterUnloadable, EndLoader, Finish, Again, InLoad,
       AtLoader, Registering, Fail
  <2>2. /\ BaseInv' /\ FirstRegistrationWins' /\ (InLoad \/ RegisteredInOrder)'
    BY <2>1, SameInitializers, InLoadInOrder DEF LoadInv
  <2>3. \A a, c : Drives(a, c)' = Drives(a, c)
    BY <2>1, DrivesSame
  <2>4. /\ Called' = Called /\ Registrations' = Registrations /\ loaders' = loaders
        /\ \A a : Pair(a)' = Pair(a) /\ First(a)' = First(a)
    BY <2>1, HostSame DEF hostVars
  <2>5. CASE DecafInitializerFails \/ LoaderRaises \/ RegisterTwice \/ RegisterUnmatched
             \/ RegisterUnloadable \/ Again
    <3>1. pc' \in {"failed", "start"}
      BY <2>5 DEF DecafInitializerFails, LoaderRaises, RegisterTwice, RegisterUnmatched,
         RegisterUnloadable, Again, Fail
    <3> QED
      BY <1>type, <2>2, <3>1 DEF LoadInv, TodoInv, PassedInv, PassedOnlyInv, InLoad,
         DoneMeansRegistered
  <2>6. CASE Finish
    <3>1. pc = "loaders" /\ at > Len(loaders) /\ pc' = "done" /\ pluginTypes' = pluginTypes
      BY <2>6 DEF Finish
    <3>2. \A a \in Registrations : InForce(a)
      BY <3>1, AllPassed DEF LoadInv, PassedInv, InLoad
    <3>3. DoneMeansRegistered'
      BY <2>3, <2>4, <3>1, <3>2 DEF DoneMeansRegistered, InForce
    <3> QED
      BY <1>type, <2>2, <3>1, <3>3 DEF LoadInv, TodoInv, PassedInv, PassedOnlyInv, InLoad
  <2>7. CASE SkipUnloadable \/ CallLoader \/ EndLoader
    <3>1. InLoad /\ pc' \in {"loaders", "register"} /\ pluginTypes' = pluginTypes
      BY <2>7 DEF SkipUnloadable, CallLoader, EndLoader, AtLoader, InLoad
    <3>2. \A a \in Registrations : Passed(a)' <=> Passed(a)
      <4>1. CASE SkipUnloadable
        <5>1. pc = "loaders" /\ pc' = "loaders" /\ at' = at + 1 /\ at \notin Called
          BY <4>1 DEF SkipUnloadable, AtLoader, Called
        <5> SUFFICES ASSUME NEW a \in Registrations PROVE a[1] < at + 1 <=> a[1] < at
          BY <5>1 DEF Passed
        <5>2. a[1] # at
          BY <5>1, <1>list
        <5> QED
          BY <1>list, <1>place, <5>2
      <4>2. CASE CallLoader
        <5>1. /\ pc = "loaders" /\ pc' = "register" /\ at' = at + 1 /\ todo' = loaders[at]
              /\ List' = loaders[at] /\ at' - 1 = at
          BY <4>2, <2>4, <1>list DEF CallLoader, AtLoader, List
        <5>2. at \in DOMAIN loaders => Len(loaders[at]) \in Nat
          BY <4>2, <1>list DEF CallLoader, AtLoader, Called
        <5> QED
          BY <5>1, <5>2, <1>list DEF Passed, Called
      <4>3. CASE EndLoader
        <5>1. /\ pc = "register" /\ pc' = "loaders" /\ at' = at /\ Len(todo) = 0
          BY <4>3 DEF EndLoader
        <5> QED
          BY <5>1, <1>list DEF Passed, List
      <4> QED
        BY <2>7, <4>1, <4>2, <4>3
    <3>3. TodoInv'
      <4>1. CASE CallLoader
        <5>1. /\ at' - 1 = at /\ at \in Called /\ todo' = loaders[at] /\ List' = loaders[at]
          BY <4>1, <2>4, <1>list, CalledLists DEF CallLoader, AtLoader, List, Called, LoadInv
        <5>2. Len(loaders[at]) \in Nat
          BY <5>1, <1>list
        <5> QED
          BY <5>1, <5>2, <2>4 DEF TodoInv
      <4>2. CASE SkipUnloadable \/ EndLoader
        BY <4>2 DEF SkipUnloadable, EndLoader, AtLoader, TodoInv
      <4> QED
        BY <2>7, <4>1, <4>2
    <3>4. PassedInv' /\ PassedOnlyInv'
      BY <2>1, <2>3, <2>4, <3>1, <3>2 DEF LoadInv, PassedInv, PassedOnlyInv, InForce
    <3> QED
      BY <1>type, <2>2, <3>1, <3>3, <3>4 DEF LoadInv, DoneMeansRegistered
  <2> QED
    BY <1>3, <2>5, <2>6, <2>7 DEF Next, LoadStep
<1> QED
  BY <1>1, <1>2, <1>3

\* The strengthening holds in every reachable state.
THEOREM LoadInductive == Spec => []LoadInv
<1>1. LoadInv /\ UNCHANGED vars => LoadInv'
  <2> SUFFICES ASSUME LoadInv, UNCHANGED vars PROVE LoadInv'
    OBVIOUS
  <2>1. UNCHANGED hostVars /\ UNCHANGED loadVars
    BY DEF vars
  <2>2. \A a, c : Drives(a, c)' = Drives(a, c)
    BY <2>1, DrivesSame DEF loadVars
  <2>3. /\ Called' = Called /\ Registrations' = Registrations
        /\ \A a : Pair(a)' = Pair(a) /\ First(a)' = First(a)
    BY <2>1, HostSame
  <2> QED
    BY <2>1, <2>2, <2>3 DEF LoadInv, TypeOK, TodoInv, List, Passed, PassedInv, PassedOnlyInv,
       BaseInv, InLoad, InForce, DoneMeansRegistered, FirstRegistrationWins, RegisteredInOrder,
       hostVars, loadVars
<1> QED
  BY <1>1, InitLoadInv, StepLoadInv, PTL DEF Spec

\* Type correctness of decaf_load.
THEOREM LoadTypeCorrect == Spec => []TypeOK
  BY LoadInductive, PTL DEF LoadInv

\* If decaf_load ends normally, every registration is in force.
THEOREM DoneIsRegistered == Spec => []DoneMeansRegistered
  BY LoadInductive, PTL DEF LoadInv

\* The first registration of a name drives its class, over any number of
\* decaf_loads.
THEOREM FirstWins == Spec => []FirstRegistrationWins
  BY LoadInductive, PTL DEF LoadInv

\* A failure cuts off the registrations after it and nothing in between.
THEOREM InOrder == Spec => []RegisteredInOrder
<1>1. LoadInv => RegisteredInOrder
  BY InLoadInOrder DEF LoadInv
<1> QED
  BY <1>1, LoadInductive, PTL
=============================================================================
