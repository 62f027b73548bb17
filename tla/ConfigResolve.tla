--------------------------- MODULE ConfigResolve ---------------------------
(***************************************************************************)
(* What a command connects to: Resolve and Validate,                       *)
(* internal/config/resolve.go, and the flags that internal/cli/root.go     *)
(* hands to them. The configuration file, the environment and the command  *)
(* line are chosen, and the settings are computed from them; the           *)
(* properties compare them with the precedence docs/configuration.md       *)
(* promises.                                                               *)
(*                                                                         *)
(* A string that is not set is empty. A *bool, and a variable that must    *)
(* parse as a bool, is a set: {} where it is nil or does not parse.        *)
(***************************************************************************)
EXTENDS Naturals, Sequences

CONSTANTS
    Strings,        \* what is written in them
    Files,          \* configuration files
    Envs,           \* environments
    CommandLines,   \* global flags
    Keyrings        \* what the profile's reference may answer

None == ""

Flag == {{}, {TRUE}, {FALSE}}

\* A reference names the profile's own entry in the keyring, a variable, or
\* another entry, or nothing that ResolveSecretRef knows.
Profiles ==
    [Provider : Strings, Server : Strings, Type : Strings, TokenID : Strings,
     User : Strings, SecretRef : {None, "keyring", "env", "astray"}, Secret : Strings,
     Finger : Strings, Verify : Flag, Output : Strings]

\* A Config: contexts and profiles by their names.
IsFile(f) ==
    /\ DOMAIN f = {"CurrentContext", "Contexts", "Profiles"}
    /\ None \notin DOMAIN f.Contexts \cup DOMAIN f.Profiles
    /\ \A c \in DOMAIN f.Contexts :
          f.Contexts[c] \in [Profile : Strings, Remote : Strings]
    /\ \A n \in DOMAIN f.Profiles : f.Profiles[n] \in Profiles

AllEnvs ==
    [CONTEXT : Strings, PROFILE : Strings, SERVER : Strings, TOKEN_ID : Strings,
     USER : Strings, TOKEN_SECRET : Strings, PASSWORD : Strings,
     TLS_FINGERPRINT : Strings, OUTPUT : Strings, INSECURE : Flag, NAMED : Strings]

AllCommandLines ==
    [Context : Strings, Profile : Strings, Server : Strings, Provider : Strings,
     TokenID : Strings, Secret : Strings, Output : Strings, Fingerprint : Strings,
     Insecure : Flag]

\* The keyring holds a secret, which may be empty, or there is an error.
Answers == [ok : BOOLEAN, secret : Strings]
Holds(v) == [ok |-> TRUE, secret |-> v]
Unreadable == [ok |-> FALSE, secret |-> None]

ASSUME FilesAssumption == \A f \in Files : IsFile(f)
ASSUME EnvsAssumption == Envs \subseteq AllEnvs
ASSUME CommandLinesAssumption == CommandLines \subseteq AllCommandLines
ASSUME KeyringsAssumption == Keyrings \subseteq Answers

VARIABLES
    file,
    env,
    flags,
    keyring,
    settings,       \* the Settings, in a set; empty before Resolve and on error
    done

inputs == <<file, env, flags, keyring>>
vars == <<inputs, settings, done>>

----------------------------------------------------------------------------
firstNonEmpty(vals) ==
    LET set == {i \in DOMAIN vals : vals[i] # None} IN
    IF set = {} THEN None
    ELSE vals[CHOOSE i \in set : \A j \in set : i <= j]

orDefault(v, default) == IF v = None THEN default ELSE v

\* app.overrides: --insecure is handed on when it is true.
Overrides(cl) ==
    [cl EXCEPT !.Insecure = IF @ = {TRUE} THEN {TRUE} ELSE {}]

ContextName(f, e, ov) ==
    firstNonEmpty(<<ov.Context, e.CONTEXT, f.CurrentContext>>)

NamedProfile(e, ov) == firstNonEmpty(<<ov.Profile, e.PROFILE>>)

\* The context is looked at when no profile is named.
ByContext(f, e, ov) ==
    NamedProfile(e, ov) = None /\ ContextName(f, e, ov) \in DOMAIN f.Contexts

\* Fault: a context is preferred to a profile that is named.
ProfileName_ContextFirst(f, e, ov) ==
    IF ContextName(f, e, ov) \in DOMAIN f.Contexts
    THEN f.Contexts[ContextName(f, e, ov)].Profile
    ELSE NamedProfile(e, ov)

ProfileName(f, e, ov) ==
    IF ByContext(f, e, ov) THEN f.Contexts[ContextName(f, e, ov)].Profile
    ELSE NamedProfile(e, ov)

\* Fault: the remote of the context is kept whatever the profile.
Remote_Always(f, e, ov) ==
    IF ContextName(f, e, ov) \in DOMAIN f.Contexts
    THEN f.Contexts[ContextName(f, e, ov)].Remote ELSE None

Remote(f, e, ov) ==
    IF ByContext(f, e, ov) THEN f.Contexts[ContextName(f, e, ov)].Remote ELSE None

\* Without a profile.
BuiltIn ==
    [Provider |-> "pve", Server |-> None, Type |-> None, TokenID |-> None,
     User |-> None, SecretRef |-> None, Secret |-> None, Finger |-> None,
     Verify |-> {}, Output |-> None]

Profile(f, name) == IF name = None THEN BuiltIn ELSE f.Profiles[name]

\* resolveSecret: a reference to the keyring, to a variable, or inline.
AsksKeyring(prof) == prof.SecretRef \in {"keyring", "astray"}
SecretFails(prof, kr) == AsksKeyring(prof) /\ ~kr.ok
resolveSecret(prof, e, kr) ==
    CASE AsksKeyring(prof)      -> kr.secret
      [] prof.SecretRef = "env" -> e.NAMED
      [] OTHER                  -> prof.Secret

\* Steps 3 to 5: profile, environment, flags, each over the one before.
Layer(flag, var, inFile, default) == firstNonEmpty(<<flag, var, inFile, default>>)

Insecure(ov, e, prof) ==
    IF ov.Insecure # {} THEN TRUE \in ov.Insecure
    ELSE IF e.INSECURE # {} THEN TRUE \in e.INSECURE
    ELSE FALSE \in prof.Verify

\* Resolve fails on a profile that is not in the file or a secret that cannot
\* be read.
ResolveFails(f, e, ov, kr) ==
    LET name == ProfileName(f, e, ov) IN
    name # None /\ (name \notin DOMAIN f.Profiles \/ SecretFails(f.Profiles[name], kr))

Resolve(f, e, ov, kr) ==
    LET name == ProfileName(f, e, ov)
        prof == Profile(f, name)
    IN [ContextName |-> ContextName(f, e, ov),
        ProfileName |-> name,
        Remote |-> Remote(f, e, ov),
        Provider |-> Layer(ov.Provider, None, prof.Provider, "pve"),
        Server |-> Layer(ov.Server, e.SERVER, prof.Server, None),
        AuthType |-> orDefault(prof.Type, "token"),
        TokenID |-> Layer(ov.TokenID, e.TOKEN_ID, prof.TokenID, None),
        User |-> Layer(None, e.USER, prof.User, None),
        Secret |-> Layer(ov.Secret, firstNonEmpty(<<e.PASSWORD, e.TOKEN_SECRET>>),
                         resolveSecret(prof, e, kr), None),
        TLSFinger |-> Layer(ov.Fingerprint, e.TLS_FINGERPRINT, prof.Finger, None),
        TLSInsecure |-> Insecure(ov, e, prof),
        Output |-> Layer(ov.Output, e.OUTPUT, prof.Output, "table")]

\* Settings.Validate.
Valid(s) ==
    /\ s.Server # None
    /\ s.Secret # None
    /\ \/ s.AuthType = "token" /\ s.TokenID # None
       \/ s.AuthType = "ticket" /\ s.User # None

----------------------------------------------------------------------------
Init ==
    /\ file \in Files
    /\ env \in Envs
    /\ flags \in CommandLines
    /\ keyring \in Keyrings
    /\ settings = {}
    /\ done = FALSE

\* app.Provider: the file is read and resolved once.
Provider ==
    /\ ~done
    /\ done' = TRUE
    /\ LET ov == Overrides(flags) IN
       settings' = IF ResolveFails(file, env, ov, keyring) THEN {}
                   ELSE {Resolve(file, env, ov, keyring)}
    /\ UNCHANGED inputs

Next == Provider

Spec == Init /\ [][Next]_vars

(***************************************************************************)
(* Properties.                                                             *)
(***************************************************************************)
\* "A flag always wins; an env var overrides the config file", setting by
\* setting: the flags --provider, --server, --token-id,
\* --token-secret, --tls-fingerprint, --output, --profile and --insecure, and the
\* variables of the server, the token id, the user, the pin, the format and
\* the TLS check. Of the two variables for a secret each wins for the kind of
\* credential that the documentation gives it to: TOKEN_SECRET for a token,
\* PASSWORD for a ticket. It says nothing of --context (ContextFlagWins), of
\* --insecure=false, or of a token with both of these variables set.
OverridesWin ==
    \A s \in settings :
        /\ flags.Provider # None => s.Provider = flags.Provider
        /\ flags.Server # None => s.Server = flags.Server
        /\ flags.TokenID # None => s.TokenID = flags.TokenID
        /\ flags.Secret # None => s.Secret = flags.Secret
        /\ flags.Fingerprint # None => s.TLSFinger = flags.Fingerprint
        /\ flags.Output # None => s.Output = flags.Output
        /\ flags.Insecure = {TRUE} => s.TLSInsecure
        /\ flags.Profile # None => s.ProfileName = flags.Profile
        /\ flags.Server = None /\ env.SERVER # None => s.Server = env.SERVER
        /\ flags.TokenID = None /\ env.TOKEN_ID # None => s.TokenID = env.TOKEN_ID
        /\ env.USER # None => s.User = env.USER
        /\ flags.Secret = None /\ env.TOKEN_SECRET # None /\ env.PASSWORD = None
              /\ s.AuthType = "token" => s.Secret = env.TOKEN_SECRET
        /\ flags.Secret = None /\ env.PASSWORD # None /\ s.AuthType = "ticket"
              => s.Secret = env.PASSWORD
        /\ flags.Fingerprint = None /\ env.TLS_FINGERPRINT # None
              => s.TLSFinger = env.TLS_FINGERPRINT
        /\ flags.Output = None /\ env.OUTPUT # None => s.Output = env.OUTPUT
        /\ flags.Insecure = {} /\ env.INSECURE # {}
              => s.TLSInsecure = (TRUE \in env.INSECURE)

\* What neither a flag nor a variable sets comes from one profile: a server
\* never gets the credentials or the pin of another, and a remote belongs to
\* a context of that profile.
OneProfileOnly ==
    \A s \in settings :
        LET prof == Profile(file, s.ProfileName) IN
        /\ s.ProfileName \in DOMAIN file.Profiles \cup {None}
        /\ s.Server \in {flags.Server, env.SERVER, prof.Server}
        /\ s.AuthType = orDefault(prof.Type, "token")
        /\ s.TokenID \in {flags.TokenID, env.TOKEN_ID, prof.TokenID}
        /\ s.User \in {env.USER, prof.User}
        /\ s.Secret \in {flags.Secret, env.TOKEN_SECRET, env.PASSWORD,
                         resolveSecret(prof, env, keyring)}
        /\ s.TLSFinger \in {flags.Fingerprint, env.TLS_FINGERPRINT, prof.Finger}
        /\ s.TLSInsecure =>
              TRUE \in flags.Insecure \cup env.INSECURE \/ prof.Verify = {FALSE}
        /\ s.Remote # None => \E c \in DOMAIN file.Contexts :
              file.Contexts[c] = [Profile |-> s.ProfileName, Remote |-> s.Remote]

\* "So a flag always wins": --context.
ContextFlagWins ==
    \A s \in settings :
        flags.Context \in DOMAIN file.Contexts /\ flags.Profile = None =>
            s.ProfileName = file.Contexts[flags.Context].Profile
=============================================================================
