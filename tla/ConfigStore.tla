---------------------------- MODULE ConfigStore ----------------------------
(***************************************************************************)
(* The configuration file and the keyring under several processes:         *)
(* `auth login`, `context use`, `config set` and `config init` edit them,  *)
(* `config view`, `config get` and `context list` read the file, and one   *)
(* command connects, by ConfigResolve, with what it finds. Any of them may *)
(* be killed between two steps.                                            *)
(*                                                                         *)
(* The file is absent, or YAML, or garbled. YAML says a configuration, as  *)
(* in ConfigResolve; "bad" names the profiles with a value of the wrong    *)
(* type, or with a value in their place, for which Load fails and loadMap  *)
(* does not. An empty file is an empty configuration, and what a broken    *)
(* write leaves of one may be YAML too.                                    *)
(***************************************************************************)
EXTENDS ConfigResolve

CONSTANTS
    Writers,        \* processes that edit or show the configuration
    Names,          \* names of profiles and contexts
    Jobs,           \* what a writer may do
    Disks,          \* the file as the writers find it
    Breaks          \* where a write breaks off, and what stands behind it

VARIABLES
    disk,
    secrets,        \* what the keyring holds for each profile
    jobs,
    pc,
    work,           \* what a writer has in memory
    exit,
    reader,         \* where the command that connects is
    base, alone     \* history: what was read, and whether nobody interfered

store == <<disk, secrets>>
Now == [file |-> disk.file, secrets |-> secrets]
writers == <<jobs, pc, work, exit, base, alone>>
svars == <<vars, store, writers, reader>>

NoFile == [CurrentContext |-> None, Contexts |-> <<>>, Profiles |-> <<>>]

NoEnv ==
    [CONTEXT |-> None, PROFILE |-> None, SERVER |-> None, TOKEN_ID |-> None,
     USER |-> None, TOKEN_SECRET |-> None, PASSWORD |-> None,
     TLS_FINGERPRINT |-> None, OUTPUT |-> None, INSECURE |-> {}, NAMED |-> None]

NoFlags ==
    [Context |-> None, Profile |-> None, Server |-> None, Provider |-> None,
     TokenID |-> None, Secret |-> None, Output |-> None, Fingerprint |-> None,
     Insecure |-> {}]

\* The values of a profile that is not written.
Unwritten ==
    [Provider |-> None, Server |-> None, Type |-> None, TokenID |-> None,
     User |-> None, SecretRef |-> None, Secret |-> None, Finger |-> None,
     Verify |-> {}, Output |-> None]

\* The token id of the file that `config init` writes.
StarterID == "user@pam!name"

ASSUME DisksAssumption ==
    \A d \in Disks : d.is \in {"absent", "yaml", "garbled"} /\ d.bad \subseteq Names
                   /\ IsFile(d.file)
ASSUME StringsAssumption ==
    {None, "pve", "token", "CHANGE-ME", StarterID, "probed", "stored", "7", "cut"}
        \subseteq Strings
ASSUME NamesAssumption ==
    /\ "default" \in Names /\ None \notin Names
    /\ \A f \in Files \cup {d.file : d \in Disks} : DOMAIN f.Profiles \subseteq Names

\* A login has a name and is for a token or for a user; its server and what is
\* typed at the prompt for the credential may be empty.
IsJob(job) ==
    /\ job.does \in {"nothing", "login", "use", "set", "init", "view", "get"}
    /\ job.does = "login" =>
          /\ DOMAIN job = {"does", "name", "as", "typed"}
          /\ job.name \in Names /\ job.typed \in Strings
          /\ job.as \in Profiles /\ job.as.SecretRef = None
          /\ \/ job.as.Type = "token" /\ job.as.TokenID # None
             \/ job.as.Type = "ticket" /\ job.as.User # None
    /\ job.does = "use" => job.key = "current_context"
    /\ job.does \in {"use", "set"} =>
          /\ job.key \in {"current_context", "server", "secret", "verify"}
          /\ job.value \in Strings
          /\ job.key = "current_context" \/ job.name \in Names

ASSUME JobsAssumption == \A job \in Jobs : IsJob(job)

\* Of the new text and of the old one behind it: the contexts and the profiles
\* that are read as they were, where the current context is read from, the
\* profile at the seam, with the values that are read from the new text, the
\* one that is cut, and the profile of the old text that the others are of.
Texts == {"new", "old", "cut"}
IsBreak(b) ==
    /\ DOMAIN b = {"current", "contexts", "profiles", "seam", "values", "cut", "rest", "bad"}
    /\ b.current \in Texts
    /\ b.contexts \in [{"new", "old"} -> SUBSET Names]
    /\ b.profiles \in [{"new", "old"} -> SUBSET Names]
    /\ b.seam \in Names \cup {None} /\ b.rest \in Names \cup {None}
    /\ b.values \subseteq DOMAIN Unwritten /\ b.cut \in DOMAIN Unwritten \cup {None}
    /\ b.bad \subseteq Names

ASSUME BreaksAssumption == \A b \in Breaks : IsBreak(b)

(***************************************************************************)
(* The file.                                                               *)
(***************************************************************************)
YAML(f, bad) == [is |-> "yaml", file |-> f, bad |-> bad]
Absent == [is |-> "absent", file |-> NoFile, bad |-> {}]
Garbled == [is |-> "garbled", file |-> NoFile, bad |-> {}]
Truncated == YAML(NoFile, {})

Loads(d) == d.is # "garbled" /\ d.bad = {}
loadMapWorks(d) == d.is # "garbled"

\* A key of a map is set, and added where it is missing.
Put(f, n, v) == [m \in DOMAIN f \cup {n} |-> IF m = n THEN v ELSE f[m]]

\* A numeral becomes the number it spells, a boolean a boolean.
coerceScalar(v) == IF v = "007" THEN "7" ELSE v
coerceBool(v) == CASE v = "true" -> {TRUE} [] v = "false" -> {FALSE} [] OTHER -> {}

\* SetValue on one of the keys current_context, profiles.<name>.server,
\* profiles.<name>.auth.secret and profiles.<name>.tls.verify. A value that is
\* no map is replaced by one.
SetValue(d, job) ==
    LET f == d.file
        v == coerceScalar(job.value)
        n == job.name
        prof == IF n \in DOMAIN f.Profiles THEN f.Profiles[n] ELSE Unwritten
        With(p) == YAML([f EXCEPT !.Profiles = Put(@, n, p)],
                        IF n \in DOMAIN f.Profiles THEN d.bad ELSE d.bad \ {n})
    IN CASE job.key = "current_context" -> YAML([f EXCEPT !.CurrentContext = v], d.bad)
         [] job.key = "server"          -> With([prof EXCEPT !.Server = v])
         [] job.key = "secret"          -> With([prof EXCEPT !.Secret = v])
         [] job.key = "verify" ->
               [With([prof EXCEPT !.Verify = coerceBool(v)]) EXCEPT
                   !.bad = IF coerceBool(v) = {} THEN @ \cup {n} ELSE @ \ {n}]

\* Fault: the profiles that were there are forgotten.
Login_Afresh(f, job, prof) ==
    [CurrentContext |-> job.name,
     Contexts |-> Put(<<>>, job.name, [Profile |-> job.name, Remote |-> None]),
     Profiles |-> Put(<<>>, job.name, prof)]

Login(f, job, prof) ==
    [CurrentContext |-> job.name,
     Contexts |-> Put(f.Contexts, job.name, [Profile |-> job.name, Remote |-> None]),
     Profiles |-> Put(f.Profiles, job.name, prof)]

Starter ==
    [CurrentContext |-> "default",
     Contexts |-> [default |-> [Profile |-> "default", Remote |-> None]],
     Profiles |-> [default |->
        [Unwritten EXCEPT !.Provider = "pve", !.Server = "CHANGE-ME", !.Type = "token",
                          !.TokenID = StarterID, !.SecretRef = "keyring"]]]

(***************************************************************************)
(* What a broken write leaves: a disk that is full takes the beginning of  *)
(* the new text; and where another wrote meanwhile, the rest of that text  *)
(* sticks out behind the new one, or behind its beginning.                 *)
(***************************************************************************)
\* A value that is cut is a shorter string, a reference that is cut is one to
\* another entry or to nothing.
Cut(x, v) ==
    CASE v = Unwritten[x] -> v
      [] x = "SecretRef"  -> "astray"
      [] x = "Verify"     -> {}
      [] OTHER            -> "cut"

\* A value of another profile; that one's reference names its own entry.
Strayed(x, v) == IF x = "SecretRef" /\ v = "keyring" THEN "astray" ELSE v

Of(P, n) == IF n \in DOMAIN P THEN P[n] ELSE Unwritten

Seam(new, old, b) ==
    [x \in DOMAIN Unwritten |->
        IF x \in b.values THEN Of(new, b.seam)[x]
        ELSE IF x = b.cut THEN Cut(x, Of(new, b.seam)[x])
        ELSE Strayed(x, Of(old, b.rest)[x])]

Splice(new, old, kept) ==
    [n \in (kept.new \cap DOMAIN new) \cup (kept.old \cap DOMAIN old) |->
        IF n \in kept.new \cap DOMAIN new THEN new[n] ELSE old[n]]

Joined(f, g, b) ==
    LET whole == Splice(f.Profiles, g.Profiles, b.profiles) IN
    [CurrentContext |-> CASE b.current = "new" -> f.CurrentContext
                          [] b.current = "old" -> g.CurrentContext
                          [] b.current = "cut" -> "cut",
     Contexts |-> Splice(f.Contexts, g.Contexts, b.contexts),
     Profiles |-> IF b.seam = None THEN whole
                  ELSE Put(whole, b.seam, Seam(f.Profiles, g.Profiles, b))]

\* All of f is still read, with something added.
SaysAll(g, f) ==
    /\ g.CurrentContext = f.CurrentContext
    /\ \A c \in DOMAIN f.Contexts : c \in DOMAIN g.Contexts /\ g.Contexts[c] = f.Contexts[c]
    /\ \A n \in DOMAIN f.Profiles :
          /\ n \in DOMAIN g.Profiles
          /\ \A x \in DOMAIN Unwritten :
                f.Profiles[n][x] \in {Unwritten[x], g.Profiles[n][x]}

Broken(d, old) == {Garbled} \cup {YAML(Joined(d.file, old.file, b), b.bad) : b \in Breaks}

\* A whole text, and what sticks out behind it.
Overlaid(d, old) ==
    IF old = Truncated THEN {d}
    ELSE {d} \cup {e \in Broken(d, old) : e = Garbled \/ SaysAll(e.file, d.file)}

(***************************************************************************)
(* Either one command meets any environment and command line, or the       *)
(* writers meet, with a command that has neither.                          *)
(***************************************************************************)
Idle == [does |-> "nothing"]

StoreInit ==
    /\ \/ /\ \E f \in Files : disk = YAML(f, {})
          /\ env \in Envs /\ flags \in CommandLines
          /\ jobs = [w \in Writers |-> Idle]
       \/ /\ disk \in Disks
          /\ env = NoEnv /\ flags = NoFlags
          /\ jobs \in [Writers -> Jobs]
    /\ secrets = [n \in Names |->
          IF n \in DOMAIN disk.file.Profiles
             /\ disk.file.Profiles[n].SecretRef = "keyring" THEN Holds("stored") ELSE Unreadable]
    /\ file = NoFile /\ keyring = Unreadable /\ settings = {} /\ done = FALSE
    /\ reader = "load"
    /\ pc = [w \in Writers |-> "start"]
    /\ work = [w \in Writers |-> Absent]
    /\ exit = [w \in Writers |-> "none"]
    /\ base = [w \in Writers |-> Now]
    /\ alone = [w \in Writers |-> TRUE]

(***************************************************************************)
(* The command that connects: Load, then the keyring, then Resolve.        *)
(***************************************************************************)
Load ==
    /\ reader = "load"
    /\ IF Loads(disk)
       THEN reader' = "ask" /\ file' = disk.file /\ UNCHANGED done
       ELSE reader' = "done" /\ done' = TRUE /\ UNCHANGED file
    /\ UNCHANGED <<env, flags, keyring, settings>>

\* The keyring may be locked or missing. A reference gone astray is answered
\* with another entry, with an empty variable, or not at all.
AskKeyring ==
    /\ reader = "ask"
    /\ reader' = "resolve"
    /\ LET n == ProfileName(file, env, Overrides(flags))
           ref == IF n \in DOMAIN file.Profiles THEN file.Profiles[n].SecretRef ELSE None
       IN keyring' \in CASE ref = "keyring" -> {Unreadable, secrets[n]}
                         [] ref = "astray"  -> {Unreadable, Holds(None)}
                                               \cup {secrets[m] : m \in Names}
                         [] OTHER           -> {keyring}
    /\ UNCHANGED <<file, env, flags, settings, done>>

Connect ==
    /\ Load \/ AskKeyring \/ (reader = "resolve" /\ Provider /\ reader' = "done")
    /\ UNCHANGED <<store, writers>>

(***************************************************************************)
(* The writers.                                                            *)
(***************************************************************************)
At(w, does, where) == jobs[w].does \in does /\ pc[w] = where

Goto(w, where) == pc' = [pc EXCEPT ![w] = where] /\ UNCHANGED exit

Ends(w, code) ==
    /\ pc' = [pc EXCEPT ![w] = "done"]
    /\ exit' = [exit EXCEPT ![w] = code]

Keeps(w, d) == work' = [work EXCEPT ![w] = d]

\* Everybody else who is under way is no longer alone.
Touches(w) ==
    alone' = [v \in Writers |-> alone[v] /\ (v = w \/ pc[v] \in {"start", "done"})]

\* view, list and current parse the file, get does not look at types.
Show(w) ==
    /\ pc[w] = "start"
    /\ \/ jobs[w].does = "view" /\ Ends(w, IF Loads(disk) THEN "ok" ELSE "error")
       \/ /\ jobs[w].does = "get"
          /\ Ends(w, IF loadMapWorks(disk) /\ jobs[w].name \in DOMAIN disk.file.Profiles
                     THEN "ok" ELSE "error")
    /\ UNCHANGED <<work, base, alone, store>>

\* Arguments and the prompt for the credential come first, then Load.
LoginLoads(w) ==
    /\ At(w, {"login"}, "start")
    /\ \/ Ends(w, "error") /\ UNCHANGED <<work, base>>
       \/ /\ Loads(disk)
          /\ Goto(w, "pin") /\ Keeps(w, disk)
          /\ base' = [base EXCEPT ![w] = Now]
    /\ UNCHANGED <<alone, store>>

\* The certificate is probed, and its owner asked, unless a pin was given.
Pin(w) ==
    /\ At(w, {"login"}, "pin")
    /\ \E pin \in IF jobs[w].as.Finger = None /\ jobs[w].as.Verify = {}
                  THEN {None, "probed"} ELSE {jobs[w].as.Finger} :
          jobs' = [jobs EXCEPT ![w].as.Finger = pin]
    /\ Goto(w, "keyring")
    /\ UNCHANGED <<work, base, alone, store>>

\* Fault: the error of the keyring is not looked at.
StoreSecret_ErrorIgnored(w) ==
    /\ At(w, {"login"}, "keyring")
    /\ LET job == jobs[w] IN
       /\ secrets' \in {secrets, [secrets EXCEPT ![job.name] = Holds(job.typed)]}
       /\ Keeps(w, YAML(Login(work[w].file, job,
                            [job.as EXCEPT !.SecretRef = "keyring"]), {}))
    /\ Touches(w) /\ Goto(w, "open")
    /\ UNCHANGED <<base, disk>>

\* Into the keyring, or, where there is none, into the file.
StoreSecret(w) ==
    /\ At(w, {"login"}, "keyring")
    /\ LET job == jobs[w] IN
       \/ /\ secrets' = [secrets EXCEPT ![job.name] = Holds(job.typed)]
          /\ Keeps(w, YAML(Login(work[w].file, job,
                               [job.as EXCEPT !.SecretRef = "keyring"]), {}))
          /\ Touches(w)
       \/ /\ Keeps(w, YAML(Login(work[w].file, job,
                               [job.as EXCEPT !.Secret = job.typed]), {}))
          /\ UNCHANGED <<secrets, alone>>
    /\ Goto(w, "open")
    /\ UNCHANGED <<base, disk>>

\* `context use` looks whether the context exists before it sets the key.
UseChecks(w) ==
    /\ At(w, {"use"}, "start")
    /\ IF Loads(disk) /\ jobs[w].value \in DOMAIN disk.file.Contexts
       THEN Goto(w, "read") ELSE Ends(w, "error")
    /\ base' = [base EXCEPT ![w] = Now]
    /\ UNCHANGED <<work, alone, store>>

SetReads(w) ==
    /\ At(w, {"set"}, "start") \/ At(w, {"use"}, "read")
    /\ IF loadMapWorks(disk)
       THEN /\ Keeps(w, SetValue(disk, jobs[w])) /\ Goto(w, "open")
            /\ base' = [base EXCEPT ![w] = Now]
       ELSE Ends(w, "error") /\ UNCHANGED <<work, base>>
    /\ UNCHANGED <<alone, store>>

InitStats(w) ==
    /\ At(w, {"init"}, "start")
    /\ IF disk.is = "absent" \/ jobs[w].force
       THEN Keeps(w, YAML(Starter, {})) /\ Goto(w, "open")
       ELSE Ends(w, "error") /\ UNCHANGED work
    /\ UNCHANGED <<base, alone, store>>

\* Fault: the file is opened without O_TRUNC.
OpenFile_Kept(w) ==
    /\ pc[w] = "open"
    /\ disk' = IF disk.is = "absent" THEN Truncated ELSE disk
    /\ Touches(w) /\ Goto(w, "write")
    /\ UNCHANGED <<work, base, secrets>>

\* os.WriteFile opens the file, which empties it, ...
OpenFile(w) ==
    /\ pc[w] = "open"
    /\ \/ disk' = Truncated /\ Touches(w) /\ Goto(w, "write")
       \/ Ends(w, "error") /\ UNCHANGED <<disk, alone>>
    /\ UNCHANGED <<work, base, secrets>>

\* ... and writes from its beginning, all of it or, with an error, part of it.
WriteFile(w) ==
    /\ pc[w] = "write"
    /\ \/ disk' \in Overlaid(work[w], disk) /\ Ends(w, "ok")
       \/ disk' \in {disk} \cup Broken(work[w], disk) /\ Ends(w, "error")
    /\ Touches(w)
    /\ UNCHANGED <<work, base, secrets>>

Kill(w) ==
    /\ pc[w] \notin {"start", "done"}
    /\ Ends(w, "killed")
    /\ UNCHANGED <<work, base, alone, store>>

WriterStep(w) ==
    /\ \/ /\ \/ Show(w) \/ LoginLoads(w) \/ StoreSecret(w) \/ UseChecks(w)
             \/ SetReads(w) \/ InitStats(w) \/ OpenFile(w) \/ WriteFile(w) \/ Kill(w)
          /\ UNCHANGED jobs
       \/ Pin(w)
    /\ UNCHANGED <<vars, reader>>

StoreNext == Connect \/ \E w \in Writers : WriterStep(w)

StoreSpec == StoreInit /\ [][StoreNext]_svars

(***************************************************************************)
(* Properties.                                                             *)
(***************************************************************************)
\* Types: a file that a command has opened, met by nobody, is empty.
StoreTypeOK ==
    /\ disk.is \in {"absent", "yaml", "garbled"} /\ disk.bad \subseteq Names
    /\ \A n \in DOMAIN disk.file.Profiles : disk.file.Profiles[n] \in Profiles
    /\ secrets \in [Names -> Answers]
    /\ \A w \in Writers :
          /\ exit[w] \in {"none", "ok", "error", "killed"}
          /\ (exit[w] # "none") = (pc[w] = "done")
          /\ pc[w] = "write" /\ alone[w] => disk = Truncated

\* `config init` writes a reference for the secret that is to come.
StarterComes == \E w \in Writers : jobs[w].does = "init"

\* Whoever is killed, whoever overlaps, and wherever a write breaks off, a
\* profile refers to its own entry of the keyring only when that holds a
\* secret, though maybe an empty one: the secret is stored before the
\* reference. The starter's reference is there to be replaced.
RefHasSecret ==
    \A n \in DOMAIN disk.file.Profiles :
        disk.file.Profiles[n].SecretRef = "keyring" =>
            secrets[n].ok \/ (n = "default" /\ StarterComes)

\* What a command connects to with a profile, without environment and other
\* flags.
Seen(f, kept, n) ==
    [Resolve(f, NoEnv, [NoFlags EXCEPT !.Profile = n], kept[n])
        EXCEPT !.ContextName = None]

\* A command that exits with 0 and that nobody interfered with has done its
\* edit and nothing else: a login leaves its server, its credential and its
\* pin to the next command, which can connect with them unless the server or
\* the credential is empty, `use` its context, and every other profile, and
\* the entry that the keyring has for it, is what it was. A numeral is
\* another, where coerceScalar changes it.
CleanEdit ==
    [][\A w \in Writers :
          exit'[w] = "ok" /\ exit[w] = "none" /\ alone[w]
            /\ jobs[w].does \in {"login", "use", "set"} =>
             LET job == jobs[w]
                 f == disk'.file
                 was == base[w]
             IN /\ job.does = "login" =>
                      LET s == Resolve(f, NoEnv, NoFlags, secrets'[job.name]) IN
                      /\ ~ResolveFails(f, NoEnv, NoFlags, secrets'[job.name])
                      /\ Valid(s) <=> job.as.Server # None /\ job.typed # None
                      /\ s.Server = job.as.Server /\ s.Secret = job.typed
                      /\ s.TLSFinger = job.as.Finger
                /\ job.does = "use" /\ coerceScalar(job.value) = job.value =>
                      LET c == was.file.Contexts[job.value] IN
                      ProfileName(f, NoEnv, NoFlags) = c.Profile
                      /\ Remote(f, NoEnv, NoFlags) = c.Remote
                /\ \A n \in DOMAIN was.file.Profiles \ {job.name} :
                      /\ n \in DOMAIN f.Profiles
                      /\ Seen(f, secrets', n) = Seen(was.file, was.secrets, n)
      ]_svars
=============================================================================
