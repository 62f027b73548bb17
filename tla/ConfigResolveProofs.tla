------------------------ MODULE ConfigResolveProofs ------------------------
(***************************************************************************)
(* The precedence of flags, environment and profiles, for every file,      *)
(* environment and command line.                                           *)
(***************************************************************************)
EXTENDS ConfigResolve, TLAPS

USE FilesAssumption, EnvsAssumption, CommandLinesAssumption, KeyringsAssumption

\* firstNonEmpty returns the first value that is not empty.
LEMMA FirstOfTwo ==
    ASSUME NEW a, NEW b
    PROVE  firstNonEmpty(<<a, b>>) = IF a # None THEN a ELSE b
<1> DEFINE vals == <<a, b>>
           set == {i \in DOMAIN vals : vals[i] # None}
           first == CHOOSE i \in set : \A j \in set : i <= j
<1>1. DOMAIN vals = 1..2 /\ vals[1] = a /\ vals[2] = b
  OBVIOUS
<1>2. 1 \in set <=> a # None
  BY <1>1
<1>3. 2 \in set <=> b # None
  BY <1>1
<1>4. \A i \in set : i \in {1, 2}
  BY <1>1
<1>5. set # {} => first \in set /\ \A j \in set : first <= j
  <2>1. set # {} => \E i \in set : \A j \in set : i <= j
    BY <1>4
  <2> QED
    BY <2>1
<1> HIDE DEF set, first
<1>6. firstNonEmpty(vals) = IF set = {} THEN None ELSE vals[first]
  BY DEF firstNonEmpty, set, first
<1> QED
  BY <1>1, <1>2, <1>3, <1>4, <1>5, <1>6

LEMMA FirstOfThree ==
    ASSUME NEW a, NEW b, NEW c
    PROVE  firstNonEmpty(<<a, b, c>>) =
              IF a # None THEN a ELSE IF b # None THEN b ELSE c
<1> DEFINE vals == <<a, b, c>>
           set == {i \in DOMAIN vals : vals[i] # None}
           first == CHOOSE i \in set : \A j \in set : i <= j
<1>1. DOMAIN vals = 1..3 /\ vals[1] = a /\ vals[2] = b /\ vals[3] = c
  OBVIOUS
<1>2. /\ 1 \in set <=> a # None
      /\ 2 \in set <=> b # None
      /\ 3 \in set <=> c # None
  BY <1>1
<1>3. \A i \in set : i \in {1, 2, 3}
  BY <1>1
<1>4. set # {} => first \in set /\ \A j \in set : first <= j
  <2>1. set # {} => \E i \in set : \A j \in set : i <= j
    BY <1>3
  <2> QED
    BY <2>1
<1> HIDE DEF set, first
<1>5. firstNonEmpty(vals) = IF set = {} THEN None ELSE vals[first]
  BY DEF firstNonEmpty, set, first
<1> QED
  BY <1>1, <1>2, <1>3, <1>4, <1>5

LEMMA FirstOfFour ==
    ASSUME NEW a, NEW b, NEW c, NEW d
    PROVE  firstNonEmpty(<<a, b, c, d>>) =
              IF a # None THEN a ELSE IF b # None THEN b
              ELSE IF c # None THEN c ELSE d
<1> DEFINE vals == <<a, b, c, d>>
           set == {i \in DOMAIN vals : vals[i] # None}
           first == CHOOSE i \in set : \A j \in set : i <= j
<1>1. /\ DOMAIN vals = 1..4
      /\ vals[1] = a /\ vals[2] = b /\ vals[3] = c /\ vals[4] = d
  OBVIOUS
<1>2. /\ 1 \in set <=> a # None
      /\ 2 \in set <=> b # None
      /\ 3 \in set <=> c # None
      /\ 4 \in set <=> d # None
  BY <1>1
<1>3. \A i \in set : i \in {1, 2, 3, 4}
  BY <1>1
<1>4. set # {} => first \in set /\ \A j \in set : first <= j
  <2>1. set # {} => \E i \in set : \A j \in set : i <= j
    BY <1>3
  <2> QED
    BY <2>1
<1> HIDE DEF set, first
<1>5. firstNonEmpty(vals) = IF set = {} THEN None ELSE vals[first]
  BY DEF firstNonEmpty, set, first
<1> QED
  BY <1>1, <1>2, <1>3, <1>4, <1>5

\* Of the four layers the first that is set counts.
LEMMA LayerFirst ==
    ASSUME NEW flag, NEW var, NEW inFile, NEW default
    PROVE  /\ flag # None => Layer(flag, var, inFile, default) = flag
           /\ flag = None /\ var # None => Layer(flag, var, inFile, default) = var
           /\ flag = None /\ var = None /\ inFile # None
                 => Layer(flag, var, inFile, default) = inFile
           /\ flag = None /\ var = None /\ inFile = None
                 => Layer(flag, var, inFile, default) = default
BY FirstOfFour DEF Layer

----------------------------------------------------------------------------
(***************************************************************************)
(* The settings are those of Resolve, and the inputs stay what they were.  *)
(***************************************************************************)
ov == Overrides(flags)

\* Of the types only the fields matter, and that a flag is one. Contexts have
\* a profile and a remote, ...
ProfileFields == {"Provider", "Server", "Type", "TokenID", "User", "SecretRef",
                  "Secret", "Finger", "Verify", "Output"}

IsProfile(prof) == DOMAIN prof = ProfileFields /\ prof.Verify \in Flag

IsContext(c) == c = [Profile |-> c.Profile, Remote |-> c.Remote]

Shaped(f) ==
    /\ DOMAIN f = {"CurrentContext", "Contexts", "Profiles"}
    /\ None \notin DOMAIN f.Contexts \cup DOMAIN f.Profiles
    /\ \A c \in DOMAIN f.Contexts : IsContext(f.Contexts[c])
    /\ \A n \in DOMAIN f.Profiles : IsProfile(f.Profiles[n])

\* ... and a command line has all its flags.
IsCommandLine(cl) ==
    /\ DOMAIN cl = {"Context", "Profile", "Server", "Provider", "TokenID", "Secret",
                    "Output", "Fingerprint", "Insecure"}
    /\ cl.Insecure \in Flag

LEMMA FilesAreShaped == ASSUME NEW f, IsFile(f) PROVE Shaped(f)
<1>1. \A c \in DOMAIN f.Contexts : IsContext(f.Contexts[c])
  BY DEF IsFile, IsContext
<1>2. \A prof \in Profiles : IsProfile(prof)
  BY DEF Profiles, ProfileFields, IsProfile
<1>3. \A n \in DOMAIN f.Profiles : IsProfile(f.Profiles[n])
  BY <1>2 DEF IsFile
<1> QED
  BY <1>1, <1>3 DEF IsFile, Shaped

LEMMA InputsAreShaped ==
    /\ \A e \in AllEnvs : e.INSECURE \in Flag
    /\ \A cl \in AllCommandLines : IsCommandLine(cl)
BY DEF AllEnvs, AllCommandLines, IsCommandLine

IInv ==
    /\ Shaped(file) /\ env.INSECURE \in Flag /\ IsCommandLine(flags)
    /\ \A s \in settings : /\ s = Resolve(file, env, ov, keyring)
                           /\ ~ResolveFails(file, env, ov, keyring)

LEMMA ProviderKeeps == IInv /\ Provider => IInv'
<1> SUFFICES ASSUME IInv, Provider
             PROVE  IInv'
  OBVIOUS
<1>1. UNCHANGED inputs
  BY DEF Provider
<1>2. ov' = ov
  BY <1>1 DEF ov, inputs
<1>3. settings' = IF ResolveFails(file, env, ov, keyring) THEN {}
                  ELSE {Resolve(file, env, ov, keyring)}
  BY DEF Provider, ov
<1> QED
  BY <1>1, <1>2, <1>3 DEF IInv, inputs

LEMMA Invariant == Spec => []IInv
<1>1. Init => IInv
  BY FilesAreShaped, InputsAreShaped DEF Init, IInv
<1>2. IInv /\ [Next]_vars => IInv'
  <2> SUFFICES ASSUME IInv, UNCHANGED vars
               PROVE  IInv'
    BY ProviderKeeps DEF Next
  <2>1. ov' = ov
    BY DEF ov, vars, inputs
  <2> QED
    BY <2>1 DEF IInv, inputs, vars
<1> QED
  BY <1>1, <1>2, PTL DEF Spec

LEMMA OverridesOfFlags ==
    ASSUME IsCommandLine(flags)
    PROVE  /\ ov.Context = flags.Context /\ ov.Profile = flags.Profile
           /\ ov.Server = flags.Server /\ ov.Provider = flags.Provider
           /\ ov.TokenID = flags.TokenID /\ ov.Secret = flags.Secret
           /\ ov.Output = flags.Output /\ ov.Fingerprint = flags.Fingerprint
           /\ ov.Insecure = IF flags.Insecure = {TRUE} THEN {TRUE} ELSE {}
BY DEF ov, Overrides, IsCommandLine

\* A named profile is the one.
LEMMA NamedIsTaken ==
    ASSUME IsCommandLine(flags), flags.Profile # None
    PROVE  ProfileName(file, env, ov) = flags.Profile
BY OverridesOfFlags, FirstOfTwo DEF ProfileName, ByContext, NamedProfile

\* The fields of the settings.
LEMMA Fields ==
    ASSUME NEW s, s = Resolve(file, env, ov, keyring), IsCommandLine(flags)
    PROVE  LET prof == Profile(file, s.ProfileName) IN
           /\ s.ProfileName = ProfileName(file, env, ov)
           /\ s.Remote = Remote(file, env, ov)
           /\ s.Provider = Layer(flags.Provider, None, prof.Provider, "pve")
           /\ s.Server = Layer(flags.Server, env.SERVER, prof.Server, None)
           /\ s.AuthType = orDefault(prof.Type, "token")
           /\ s.TokenID = Layer(flags.TokenID, env.TOKEN_ID, prof.TokenID, None)
           /\ s.User = Layer(None, env.USER, prof.User, None)
           /\ s.Secret = Layer(flags.Secret, firstNonEmpty(<<env.PASSWORD, env.TOKEN_SECRET>>),
                               resolveSecret(prof, env, keyring), None)
           /\ s.TLSFinger = Layer(flags.Fingerprint, env.TLS_FINGERPRINT, prof.Finger, None)
           /\ s.TLSInsecure = Insecure(ov, env, prof)
           /\ s.Output = Layer(flags.Output, env.OUTPUT, prof.Output, "table")
BY OverridesOfFlags DEF Resolve

----------------------------------------------------------------------------
LEMMA SettingsOverride == IInv => OverridesWin
<1> SUFFICES ASSUME IInv, NEW s \in settings
             PROVE  OverridesWin!(s)
  BY DEF OverridesWin
<1> DEFINE prof == Profile(file, s.ProfileName)
<1>1. s = Resolve(file, env, ov, keyring) /\ IsCommandLine(flags) /\ env.INSECURE \in Flag
  BY DEF IInv
<1>2. /\ s.ProfileName = ProfileName(file, env, ov)
      /\ s.Provider = Layer(flags.Provider, None, prof.Provider, "pve")
      /\ s.Server = Layer(flags.Server, env.SERVER, prof.Server, None)
      /\ s.TokenID = Layer(flags.TokenID, env.TOKEN_ID, prof.TokenID, None)
      /\ s.User = Layer(None, env.USER, prof.User, None)
      /\ s.Secret = Layer(flags.Secret, firstNonEmpty(<<env.PASSWORD, env.TOKEN_SECRET>>),
                          resolveSecret(prof, env, keyring), None)
      /\ s.TLSFinger = Layer(flags.Fingerprint, env.TLS_FINGERPRINT, prof.Finger, None)
      /\ s.TLSInsecure = Insecure(ov, env, prof)
      /\ s.Output = Layer(flags.Output, env.OUTPUT, prof.Output, "table")
  BY <1>1, Fields
<1> HIDE DEF prof
<1>3. flags.Profile # None => s.ProfileName = flags.Profile
  BY <1>1, <1>2, NamedIsTaken
<1>4. /\ flags.Secret # None => s.Secret = flags.Secret
      /\ flags.Secret = None /\ env.PASSWORD # None => s.Secret = env.PASSWORD
      /\ flags.Secret = None /\ env.TOKEN_SECRET # None /\ env.PASSWORD = None
            => s.Secret = env.TOKEN_SECRET
  BY <1>2, LayerFirst, FirstOfTwo
<1>5. /\ flags.Insecure = {TRUE} => s.TLSInsecure
      /\ flags.Insecure = {} /\ env.INSECURE # {}
            => s.TLSInsecure = (TRUE \in env.INSECURE)
  BY <1>1, <1>2, OverridesOfFlags DEF Insecure, IsCommandLine
<1>6. /\ flags.Provider # None => s.Provider = flags.Provider
      /\ flags.Server # None => s.Server = flags.Server
      /\ flags.TokenID # None => s.TokenID = flags.TokenID
      /\ flags.Fingerprint # None => s.TLSFinger = flags.Fingerprint
      /\ flags.Output # None => s.Output = flags.Output
  BY <1>2, LayerFirst
<1>7. /\ flags.Server = None /\ env.SERVER # None => s.Server = env.SERVER
      /\ flags.TokenID = None /\ env.TOKEN_ID # None => s.TokenID = env.TOKEN_ID
      /\ env.USER # None => s.User = env.USER
      /\ flags.Fingerprint = None /\ env.TLS_FINGERPRINT # None
            => s.TLSFinger = env.TLS_FINGERPRINT
      /\ flags.Output = None /\ env.OUTPUT # None => s.Output = env.OUTPUT
  BY <1>2, LayerFirst
<1> QED
  BY <1>3, <1>4, <1>5, <1>6, <1>7

\* A flag beats a variable, and a variable the file, for the settings that
\* OverridesWin names, --context and --insecure=false aside: the variable of
\* a token's secret counts for a token, the one of a password for a ticket.
THEOREM OverridesWinHolds == Spec => []OverridesWin
BY SettingsOverride, Invariant, PTL

LEMMA SettingsOneProfile == IInv => OneProfileOnly
<1> SUFFICES ASSUME IInv, NEW s \in settings
             PROVE  OneProfileOnly!(s)
  BY DEF OneProfileOnly
<1> DEFINE prof == Profile(file, s.ProfileName)
<1>1. /\ s = Resolve(file, env, ov, keyring)
      /\ ~ResolveFails(file, env, ov, keyring)
      /\ IsCommandLine(flags) /\ env.INSECURE \in Flag /\ Shaped(file)
  BY DEF IInv
<1>2. /\ s.ProfileName = ProfileName(file, env, ov)
      /\ s.Remote = Remote(file, env, ov)
      /\ s.Server = Layer(flags.Server, env.SERVER, prof.Server, None)
      /\ s.AuthType = orDefault(prof.Type, "token")
      /\ s.TokenID = Layer(flags.TokenID, env.TOKEN_ID, prof.TokenID, None)
      /\ s.User = Layer(None, env.USER, prof.User, None)
      /\ s.Secret = Layer(flags.Secret, firstNonEmpty(<<env.PASSWORD, env.TOKEN_SECRET>>),
                          resolveSecret(prof, env, keyring), None)
      /\ s.TLSFinger = Layer(flags.Fingerprint, env.TLS_FINGERPRINT, prof.Finger, None)
      /\ s.TLSInsecure = Insecure(ov, env, prof)
  BY <1>1, Fields
<1>3. s.ProfileName \in DOMAIN file.Profiles \cup {None}
  BY <1>1, <1>2 DEF ResolveFails
<1>4. s.TLSInsecure =>
         TRUE \in flags.Insecure \cup env.INSECURE \/ prof.Verify = {FALSE}
  <2>1. prof.Verify \in Flag
    BY <1>1, <1>3 DEF Profile, BuiltIn, Flag, Shaped, IsProfile
  <2> HIDE DEF prof
  <2> QED
    BY <1>1, <1>2, <2>1, OverridesOfFlags DEF Insecure, IsCommandLine, Flag
<1>5. s.Remote # None => \E c \in DOMAIN file.Contexts :
         file.Contexts[c] = [Profile |-> s.ProfileName, Remote |-> s.Remote]
  <2> DEFINE c == ContextName(file, env, ov)
  <2>1. ASSUME s.Remote # None
        PROVE  /\ c \in DOMAIN file.Contexts
               /\ s.Remote = file.Contexts[c].Remote
               /\ s.ProfileName = file.Contexts[c].Profile
    BY <1>2, <2>1 DEF Remote, ProfileName, ByContext
  <2> HIDE DEF c
  <2>2. ASSUME c \in DOMAIN file.Contexts
        PROVE  file.Contexts[c] = [Profile |-> file.Contexts[c].Profile,
                                   Remote |-> file.Contexts[c].Remote]
    BY <1>1, <2>2 DEF Shaped, IsContext
  <2> QED
    BY <2>1, <2>2
<1> HIDE DEF prof
<1>6. /\ s.Server \in {flags.Server, env.SERVER, prof.Server}
      /\ s.TokenID \in {flags.TokenID, env.TOKEN_ID, prof.TokenID}
      /\ s.User \in {env.USER, prof.User}
      /\ s.TLSFinger \in {flags.Fingerprint, env.TLS_FINGERPRINT, prof.Finger}
  BY <1>2, LayerFirst
<1>7. s.Secret \in {flags.Secret, env.TOKEN_SECRET, env.PASSWORD,
                    resolveSecret(prof, env, keyring)}
  BY <1>2, LayerFirst, FirstOfTwo
<1> QED
  BY <1>2, <1>3, <1>4, <1>5, <1>6, <1>7 DEF prof

\* What neither a flag nor a variable sets comes from one profile, and a
\* remote from a context of that profile.
THEOREM OneProfileOnlyHolds == Spec => []OneProfileOnly
BY SettingsOneProfile, Invariant, PTL
=============================================================================
