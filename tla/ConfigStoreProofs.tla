-------------------------- MODULE ConfigStoreProofs --------------------------
(***************************************************************************)
(* For any number of processes that edit the configuration, killed at any  *)
(* step and with writes that break off anywhere: a reference to the        *)
(* keyring is never ahead of its secret, and what a command connects to    *)
(* keeps the precedence of its sources.                                    *)
(***************************************************************************)
EXTENDS ConfigStore, ConfigResolveProofs

----------------------------------------------------------------------------
(***************************************************************************)
(* Files: what an edit makes of one.                                       *)
(***************************************************************************)
\* A profile of f that refers to its entry in the keyring finds a secret,
\* unless it is the one of a starter that is to come.
Finds(prof, n, kept, comes) ==
    prof.SecretRef = "keyring" => kept[n].ok \/ (n = "default" /\ comes)

Held(f, kept, comes) ==
    \A n \in DOMAIN f.Profiles : n \in Names /\ Finds(f.Profiles[n], n, kept, comes)

Grows(kept, kept2) == \A n \in Names : kept[n].ok => kept2[n].ok

LEMMA HeldGrows ==
    ASSUME NEW f, NEW kept, NEW kept2, NEW comes, Held(f, kept, comes), Grows(kept, kept2)
    PROVE  Held(f, kept2, comes)
BY DEF Held, Finds, Grows

LEMMA NamesAre == "default" \in Names /\ None \notin Names
BY NamesAssumption

LEMMA EmptyFile ==
    /\ Shaped(NoFile) /\ \A kept, comes : Held(NoFile, kept, comes)
    /\ DOMAIN NoFile.Profiles = {}
<1>1. /\ NoFile.Profiles = <<>> /\ NoFile.Contexts = <<>> /\ DOMAIN <<>> = {}
      /\ DOMAIN NoFile = {"CurrentContext", "Contexts", "Profiles"}
  BY DEF NoFile
<1> QED
  BY <1>1 DEF Shaped, Held

\* A profile is added or replaced.
LEMMA WithProfile ==
    ASSUME NEW f, NEW g, NEW kept, NEW kept2, NEW n \in Names, NEW prof,
           NEW comes, IsProfile(prof), Shaped(f), Held(f, kept, comes),
           Grows(kept, kept2), Finds(prof, n, kept2, comes),
           DOMAIN g = {"CurrentContext", "Contexts", "Profiles"},
           g.Profiles = Put(f.Profiles, n, prof),
           \/ g.Contexts = f.Contexts
           \/ g.Contexts = Put(f.Contexts, n, [Profile |-> n, Remote |-> None])
    PROVE  Shaped(g) /\ Held(g, kept2, comes)
<1> DEFINE P == g.Profiles
           C == g.Contexts
           context == [Profile |-> n, Remote |-> None]
<1>1. /\ DOMAIN P = DOMAIN f.Profiles \cup {n}
      /\ \A m \in DOMAIN P : P[m] = IF m = n THEN prof ELSE f.Profiles[m]
  BY DEF Put
<1>2. n # None /\ IsContext(context)
  BY NamesAre DEF IsContext
<1>3. None \notin DOMAIN C /\ \A c \in DOMAIN C : IsContext(C[c])
  <2>1. CASE C = f.Contexts
    BY <2>1 DEF Shaped
  <2>2. CASE C = Put(f.Contexts, n, context)
    <3>1. /\ DOMAIN C = DOMAIN f.Contexts \cup {n}
          /\ \A c \in DOMAIN C : C[c] = IF c = n THEN context ELSE f.Contexts[c]
      BY <2>2 DEF Put
    <3> HIDE DEF C, context
    <3> QED
      BY <1>2, <3>1 DEF Shaped
  <2> QED
    BY <2>1, <2>2
<1> HIDE DEF P, C
<1>4. \A m \in DOMAIN P : IsProfile(P[m])
  BY <1>1 DEF Shaped
<1>5. None \notin DOMAIN P
  BY <1>1, <1>2 DEF Shaped
<1>6. \A m \in DOMAIN P : m \in Names /\ Finds(P[m], m, kept2, comes)
  <2> SUFFICES ASSUME NEW m \in DOMAIN P
               PROVE  m \in Names /\ Finds(P[m], m, kept2, comes)
    OBVIOUS
  <2>1. CASE m = n
    BY <1>1, <2>1
  <2>2. CASE m # n
    BY <1>1, <2>2 DEF Held, Finds, Grows
  <2> QED
    BY <2>1, <2>2
<1> QED
  BY <1>3, <1>4, <1>5, <1>6 DEF Shaped, Held, P, C

\* What the steps of a job rely on.
JobFits(job) == IsJob(job) /\ (job.does = "login" => IsProfile(job.as))

LEMMA JobsFit == (\A job \in Jobs : JobFits(job)) /\ JobFits(Idle)
<1>1. \A prof \in Profiles : IsProfile(prof)
  BY DEF Profiles, ProfileFields, IsProfile
<1>2. JobFits(Idle)
  BY DEF JobFits, IsJob, Idle
<1>3. ASSUME NEW job \in Jobs
      PROVE  JobFits(job)
  <2>1. IsJob(job)
    BY JobsAssumption
  <2> QED
    BY <1>1, <2>1 DEF JobFits, IsJob
<1> QED
  BY <1>2, <1>3

LEMMA UnwrittenIsProfile == IsProfile(Unwritten) /\ Unwritten.SecretRef = None
BY DEF Unwritten, IsProfile, ProfileFields, Flag

LEMMA SetValueKeeps ==
    ASSUME NEW d, NEW job, NEW kept, NEW comes, Shaped(d.file),
           Held(d.file, kept, comes), JobFits(job), job.does \in {"use", "set"}
    PROVE  Shaped(SetValue(d, job).file) /\ Held(SetValue(d, job).file, kept, comes)
<1> DEFINE f == d.file
           n == job.name
           v == coerceScalar(job.value)
           b == coerceBool(v)
           prof == IF n \in DOMAIN f.Profiles THEN f.Profiles[n] ELSE Unwritten
           next == SetValue(d, job).file
<1>1. job.key \in {"current_context", "server", "secret", "verify"}
  BY DEF JobFits, IsJob
<1>2. CASE job.key = "current_context"
  <2>1. next = [f EXCEPT !.CurrentContext = v]
    BY <1>2 DEF SetValue, YAML
  <2>2. DOMAIN next = DOMAIN f /\ next.Profiles = f.Profiles /\ next.Contexts = f.Contexts
    BY <2>1 DEF Shaped
  <2> HIDE DEF next
  <2> QED
    BY <2>2 DEF Shaped, Held, next
<1>3. CASE job.key # "current_context"
  <2>1. PICK p : /\ \/ p = [prof EXCEPT !.Server = v]
                    \/ p = [prof EXCEPT !.Secret = v]
                    \/ p = [prof EXCEPT !.Verify = b]
                 /\ next = [f EXCEPT !.Profiles = Put(@, n, p)]
    <3>1. CASE job.key = "server"
      BY <3>1 DEF SetValue, YAML
    <3>2. CASE job.key = "secret"
      BY <3>2 DEF SetValue, YAML
    <3>3. CASE job.key = "verify"
      BY <3>3 DEF SetValue, YAML
    <3> QED
      BY <1>1, <1>3, <3>1, <3>2, <3>3
  <2>2. n \in Names
    BY <1>3 DEF JobFits, IsJob
  <2>3. IsProfile(prof)
    BY UnwrittenIsProfile DEF Shaped
  <2>4. Finds(prof, n, kept, comes)
    BY UnwrittenIsProfile DEF Held, Finds, None
  <2>5. b \in Flag
    BY DEF coerceBool, Flag
  <2> HIDE DEF prof, v, b, next
  <2>6. IsProfile(p) /\ Finds(p, n, kept, comes)
    BY <2>1, <2>3, <2>4, <2>5 DEF IsProfile, ProfileFields, Finds
  <2>7. /\ DOMAIN next = {"CurrentContext", "Contexts", "Profiles"}
        /\ next.Profiles = Put(f.Profiles, n, p) /\ next.Contexts = f.Contexts
    BY <2>1 DEF Shaped
  <2>8. Grows(kept, kept)
    BY DEF Grows
  <2>9. Shaped(next) /\ Held(next, kept, comes)
    BY <2>2, <2>6, <2>7, <2>8, WithProfile
  <2> QED
    BY <2>9 DEF next
<1> QED
  BY <1>2, <1>3

LEMMA StarterKeeps == Shaped(Starter) /\ \A kept : Held(Starter, kept, TRUE)
<1> DEFINE context == [Profile |-> "default", Remote |-> None]
           prof == [Unwritten EXCEPT !.Provider = "pve", !.Server = "CHANGE-ME",
                       !.Type = "token", !.TokenID = StarterID, !.SecretRef = "keyring"]
<1>1. /\ Starter = [CurrentContext |-> "default", Contexts |-> [default |-> context],
                    Profiles |-> [default |-> prof]]
  BY DEF Starter
<1>2. IsProfile(prof)
  BY UnwrittenIsProfile DEF IsProfile, ProfileFields
<1>3. IsContext(context)
  BY DEF IsContext
<1> HIDE DEF context, prof
<1>4. /\ DOMAIN Starter = {"CurrentContext", "Contexts", "Profiles"}
      /\ DOMAIN Starter.Contexts = {"default"} /\ DOMAIN Starter.Profiles = {"default"}
      /\ Starter.Contexts["default"] = context
      /\ Starter.Profiles["default"] = prof
  BY <1>1
<1> QED
  BY <1>2, <1>3, <1>4, NamesAre DEF Shaped, Held, Finds

----------------------------------------------------------------------------
(***************************************************************************)
(* The invariant: what is in the file, and what a process is about to put  *)
(* there, has its secrets already, and secrets are only ever replaced by   *)
(* secrets.                                                                *)
(***************************************************************************)
Good(d, kept, comes) == Shaped(d.file) /\ Held(d.file, kept, comes)

SInv ==
    /\ DOMAIN secrets = Names
    /\ DOMAIN jobs = Writers /\ \A w \in Writers : JobFits(jobs[w])
    /\ DOMAIN work = Writers /\ \A w \in Writers : Good(work[w], secrets, StarterComes)
    /\ Good(disk, secrets, StarterComes)

RInv == IInv /\ (reader # "done" => settings = {})

LEMMA SInvInit == StoreInit => SInv
<1> SUFFICES ASSUME StoreInit
             PROVE  SInv
  OBVIOUS
<1>1. \E f : disk.file = f /\ IsFile(f) /\ DOMAIN f.Profiles \subseteq Names
  <2>1. CASE \E f \in Files : disk = YAML(f, {})
    BY <2>1, FilesAssumption, NamesAssumption DEF YAML
  <2>2. CASE disk \in Disks
    BY <2>2, DisksAssumption, NamesAssumption
  <2> QED
    BY <2>1, <2>2 DEF StoreInit
<1>2. \A n \in DOMAIN disk.file.Profiles :
         disk.file.Profiles[n].SecretRef = "keyring" => secrets[n].ok
  BY <1>1 DEF StoreInit, Holds
<1>3. Good(disk, secrets, StarterComes)
  BY <1>1, <1>2, FilesAreShaped DEF Good, Held, Finds
<1>4. Good(Absent, secrets, StarterComes)
  BY EmptyFile DEF Good, Absent
<1>5. DOMAIN jobs = Writers /\ \A w \in Writers : JobFits(jobs[w])
  BY JobsFit DEF StoreInit
<1> QED
  BY <1>3, <1>4, <1>5 DEF SInv, StoreInit

\* A writer's step touches what it has in memory, its job, the file, and
\* one secret.
LEMMA OneWriter ==
    ASSUME SInv, NEW w \in Writers,
           UNCHANGED secrets \/ \E n \in Names : \E s :
                                    secrets' = [secrets EXCEPT ![n] = Holds(s)],
           UNCHANGED jobs \/ \E j : /\ jobs' = [jobs EXCEPT ![w] = j]
                                   /\ JobFits(j) /\ j.does = jobs[w].does,
           UNCHANGED work \/ \E d : /\ work' = [work EXCEPT ![w] = d]
                                   /\ Good(d, secrets', StarterComes),
           UNCHANGED disk \/ Good(disk', secrets', StarterComes)
    PROVE  SInv'
<1> DEFINE comes == StarterComes
<1>1. DOMAIN secrets' = Names /\ Grows(secrets, secrets')
  BY DEF SInv, Grows, Holds
<1>2. \A d : Good(d, secrets, comes) => Good(d, secrets', comes)
  BY <1>1, HeldGrows DEF Good
<1>3. /\ DOMAIN jobs' = Writers /\ \A v \in Writers : JobFits(jobs'[v])
      /\ \A v \in Writers : jobs'[v].does = jobs[v].does
  BY DEF SInv
<1>4. DOMAIN work' = Writers /\ \A v \in Writers : Good(work'[v], secrets', comes)
  BY <1>2 DEF SInv
<1>5. Good(disk', secrets', comes)
  BY <1>2 DEF SInv
<1>6. comes' <=> comes
  BY <1>3 DEF StarterComes
<1> HIDE DEF comes
<1>7. \A d : Good(d, secrets', comes) => Good(d, secrets', comes')
  BY <1>6 DEF Good, Held, Finds
<1>8. /\ \A v \in Writers : Good(work'[v], secrets', comes')
      /\ Good(disk', secrets', comes')
  BY <1>4, <1>5, <1>7
<1> QED
  BY <1>1, <1>3, <1>4, <1>8 DEF SInv, Good, Shaped, Held, Finds, comes

\* A value of the profile at a seam is one of a profile's, and what it keeps
\* of a reference of its own is whole.
LEMMA SeamKeeps ==
    ASSUME NEW new, NEW old, NEW b, NEW kept, NEW comes, IsBreak(b), b.seam # None,
           \A n \in DOMAIN new : IsProfile(new[n]) /\ Finds(new[n], n, kept, comes),
           \A n \in DOMAIN old : IsProfile(old[n])
    PROVE  IsProfile(Seam(new, old, b)) /\ Finds(Seam(new, old, b), b.seam, kept, comes)
<1> DEFINE p == Of(new, b.seam)
           q == Of(old, b.rest)
           seam == Seam(new, old, b)
<1>1. /\ IsProfile(p) /\ Finds(p, b.seam, kept, comes)
      /\ IsProfile(q)
  BY UnwrittenIsProfile DEF Of, Finds, None
<1>2. DOMAIN Unwritten = ProfileFields /\ Unwritten.Verify \in Flag
      /\ Unwritten.SecretRef = None
  BY UnwrittenIsProfile DEF IsProfile
<1> HIDE DEF p, q
<1>3. /\ DOMAIN seam = ProfileFields
      /\ \A x \in ProfileFields :
            seam[x] = IF x \in b.values THEN p[x]
                      ELSE IF x = b.cut THEN Cut(x, p[x]) ELSE Strayed(x, q[x])
  BY <1>2 DEF Seam, p, q
<1> HIDE DEF seam
<1>4. seam.Verify \in Flag
  <2>1. Cut("Verify", p.Verify) \in Flag /\ Strayed("Verify", q.Verify) \in Flag
    BY <1>1, <1>2 DEF Cut, Strayed, IsProfile, Flag
  <2> QED
    BY <1>1, <1>3, <2>1 DEF ProfileFields, IsProfile
<1>5. seam.SecretRef = "keyring" => p.SecretRef = "keyring"
  <2>1. Cut("SecretRef", p.SecretRef) # "keyring"
    BY <1>2 DEF Cut, None
  <2>2. Strayed("SecretRef", q.SecretRef) # "keyring"
    BY DEF Strayed
  <2> QED
    BY <1>3, <2>1, <2>2 DEF ProfileFields
<1> QED
  BY <1>1, <1>3, <1>4, <1>5 DEF IsProfile, Finds, seam

\* What a broken write leaves refers to no entry that the two texts did not.
LEMMA BrokenKeeps ==
    ASSUME NEW d, NEW old, NEW kept, NEW comes, Good(d, kept, comes), Good(old, kept, comes),
           NEW e \in Broken(d, old)
    PROVE  Good(e, kept, comes)
<1>1. CASE e = Garbled
  BY <1>1, EmptyFile DEF Good, Garbled
<1>2. ASSUME NEW b \in Breaks, e = YAML(Joined(d.file, old.file, b), b.bad)
      PROVE  Good(e, kept, comes)
  <2> DEFINE f == d.file
             g == old.file
             whole == Splice(f.Profiles, g.Profiles, b.profiles)
             seam == Seam(f.Profiles, g.Profiles, b)
             C == Splice(f.Contexts, g.Contexts, b.contexts)
             P == IF b.seam = None THEN whole ELSE Put(whole, b.seam, seam)
  <2>1. /\ IsBreak(b) /\ Shaped(f) /\ Shaped(g)
        /\ Held(f, kept, comes) /\ Held(g, kept, comes)
    BY BreaksAssumption DEF Good
  <2>2. /\ e.file.Contexts = C /\ e.file.Profiles = P
        /\ DOMAIN e.file = {"CurrentContext", "Contexts", "Profiles"}
    BY <1>2 DEF YAML, Joined
  <2>3. \A n \in DOMAIN whole :
           \/ n \in DOMAIN f.Profiles /\ whole[n] = f.Profiles[n]
           \/ n \in DOMAIN g.Profiles /\ whole[n] = g.Profiles[n]
    BY DEF Splice
  <2>4. \A c \in DOMAIN C :
           \/ c \in DOMAIN f.Contexts /\ C[c] = f.Contexts[c]
           \/ c \in DOMAIN g.Contexts /\ C[c] = g.Contexts[c]
    BY DEF Splice
  <2>5. None \notin DOMAIN C /\ \A c \in DOMAIN C : IsContext(C[c])
    <3> HIDE DEF C
    <3> QED
      BY <2>1, <2>4 DEF Shaped
  <2>6. \A n \in DOMAIN whole : /\ n # None /\ n \in Names
                               /\ IsProfile(whole[n]) /\ Finds(whole[n], n, kept, comes)
    <3> HIDE DEF whole
    <3> QED
      BY <2>1, <2>3 DEF Shaped, Held
  <2>7. b.seam # None => /\ b.seam \in Names
                         /\ IsProfile(seam) /\ Finds(seam, b.seam, kept, comes)
    BY <2>1, SeamKeeps DEF Shaped, Held, IsBreak
  <2> HIDE DEF whole, seam, C
  <2>8. \A n \in DOMAIN P : /\ n # None /\ n \in Names
                           /\ IsProfile(P[n]) /\ Finds(P[n], n, kept, comes)
    BY <2>6, <2>7 DEF Put
  <2> HIDE DEF P
  <2> QED
    BY <2>2, <2>5, <2>8 DEF Good, Shaped, Held
<1> QED
  BY <1>1, <1>2 DEF Broken

LEMMA StoreSecretKeeps ==
    ASSUME SInv, NEW w \in Writers, StoreSecret(w), UNCHANGED jobs
    PROVE  SInv'
<1> DEFINE job == jobs[w]
           f == work[w].file
           inRing == [job.as EXCEPT !.SecretRef = "keyring"]
           inFile == [job.as EXCEPT !.Secret = job.typed]
<1>1. job.name \in Names /\ IsProfile(job.as) /\ job.as.SecretRef = None
  BY DEF SInv, JobFits, IsJob, StoreSecret, At
<1>2. Shaped(f) /\ Held(f, secrets, StarterComes)
  BY DEF SInv, Good
<1>3. ASSUME NEW prof, IsProfile(prof), NEW kept, Grows(secrets, kept),
             prof.SecretRef = "keyring" => kept[job.name].ok
      PROVE  Good(YAML(Login(f, job, prof), {}), kept, StarterComes)
  <2> DEFINE g == Login(f, job, prof)
  <2>1. /\ DOMAIN g = {"CurrentContext", "Contexts", "Profiles"}
        /\ g.Profiles = Put(f.Profiles, job.name, prof)
        /\ g.Contexts = Put(f.Contexts, job.name, [Profile |-> job.name, Remote |-> None])
    BY DEF Login
  <2> HIDE DEF g, job, f
  <2>0. Finds(prof, job.name, kept, StarterComes)
    BY <1>3 DEF Finds
  <2>2. Shaped(g) /\ Held(g, kept, StarterComes)
    BY <1>1, <1>2, <1>3, <2>0, <2>1, WithProfile
  <2>3. YAML(g, {}).file = g
    BY DEF YAML
  <2> QED
    BY <2>2, <2>3 DEF Good, g
<1>4. CASE /\ secrets' = [secrets EXCEPT ![job.name] = Holds(job.typed)]
           /\ Keeps(w, YAML(Login(f, job, inRing), {}))
  <2>1. Grows(secrets, secrets') /\ secrets'[job.name].ok
    BY <1>1, <1>4 DEF SInv, Grows, Holds
  <2>2. IsProfile(inRing)
    BY <1>1 DEF IsProfile, ProfileFields
  <2>3. Good(YAML(Login(f, job, inRing), {}), secrets', StarterComes)
    BY <1>3, <2>1, <2>2
  <2> HIDE DEF f, inRing
  <2> QED
    BY <1>1, <1>4, <2>3, OneWriter DEF StoreSecret, Keeps
<1>5. CASE Keeps(w, YAML(Login(f, job, inFile), {})) /\ UNCHANGED secrets
  <2>1. Grows(secrets, secrets)
    BY DEF Grows
  <2>2. IsProfile(inFile) /\ inFile.SecretRef # "keyring"
    BY <1>1 DEF IsProfile, ProfileFields, None
  <2>3. Good(YAML(Login(f, job, inFile), {}), secrets', StarterComes)
    BY <1>3, <1>5, <2>1, <2>2
  <2> HIDE DEF f, inFile
  <2> QED
    BY <1>5, <2>3, OneWriter DEF StoreSecret, Keeps
<1> QED
  BY <1>4, <1>5 DEF StoreSecret

LEMMA WriterKeeps ==
    ASSUME SInv, NEW w \in Writers, WriterStep(w)
    PROVE  SInv'
<1> DEFINE job == jobs[w]
<1>1. CASE Show(w) /\ UNCHANGED jobs
  BY <1>1, OneWriter DEF Show, store
<1>2. CASE LoginLoads(w) /\ UNCHANGED jobs
  <2>1. Good(disk, secrets, StarterComes)
    BY DEF SInv
  <2> QED
    BY <1>2, <2>1, OneWriter DEF LoginLoads, store, Keeps
<1>3. CASE StoreSecret(w) /\ UNCHANGED jobs
  BY <1>3, StoreSecretKeeps
<1>4. CASE UseChecks(w) /\ UNCHANGED jobs
  BY <1>4, OneWriter DEF UseChecks, store
<1>5. CASE SetReads(w) /\ UNCHANGED jobs
  <2>1. Good(SetValue(disk, job), secrets, StarterComes)
    <3>1. JobFits(job) /\ job.does \in {"use", "set"}
      BY <1>5 DEF SInv, SetReads, At
    <3>2. Shaped(disk.file) /\ Held(disk.file, secrets, StarterComes)
      BY DEF SInv, Good
    <3> QED
      BY <3>1, <3>2, SetValueKeeps DEF Good
  <2> QED
    BY <1>5, <2>1, OneWriter DEF SetReads, store, Keeps
<1>6. CASE InitStats(w) /\ UNCHANGED jobs
  <2>1. Good(YAML(Starter, {}), secrets, StarterComes)
    <3>1. StarterComes
      BY <1>6 DEF StarterComes, InitStats, At
    <3> QED
      BY <3>1, StarterKeeps DEF Good, YAML, Held, Finds
  <2> QED
    BY <1>6, <2>1, OneWriter DEF InitStats, store, Keeps
<1>7. Good(Truncated, secrets, StarterComes)
  BY EmptyFile DEF Good, Truncated, YAML
<1>8. CASE OpenFile(w) /\ UNCHANGED jobs
  BY <1>7, <1>8, OneWriter DEF OpenFile
<1>9. CASE WriteFile(w) /\ UNCHANGED jobs
  <2>1. Good(work[w], secrets, StarterComes) /\ Good(disk, secrets, StarterComes)
    BY DEF SInv
  <2>2. disk' \in {work[w], disk} \cup Broken(work[w], disk)
    BY <1>9 DEF WriteFile, Overlaid
  <2>3. Good(disk', secrets, StarterComes)
    BY <2>1, <2>2, BrokenKeeps
  <2> QED
    BY <1>9, <2>3, OneWriter DEF WriteFile
<1>10. CASE Kill(w) /\ UNCHANGED jobs
  BY <1>10, OneWriter DEF Kill, store
<1>11. CASE Pin(w)
  <2>0. PICK pin \in IF job.as.Finger = None /\ job.as.Verify = {}
                     THEN {None, "probed"} ELSE {job.as.Finger} :
           jobs' = [jobs EXCEPT ![w].as.Finger = pin]
    BY <1>11, Zenon DEF Pin
  <2>1. jobs' = [jobs EXCEPT ![w].as.Finger = pin]
    BY <2>0
  <2> DEFINE j == [job EXCEPT !.as.Finger = pin]
  <2>2. jobs' = [jobs EXCEPT ![w] = j]
    BY <2>1
  <2>3. job.does = "login" /\ JobFits(job)
    BY <1>11 DEF Pin, At, SInv
  <2>4. JobFits(j)
    <3>1. /\ j.does = "login" /\ j.name = job.name /\ j.typed = job.typed
          /\ j.as = [job.as EXCEPT !.Finger = pin] /\ DOMAIN j = DOMAIN job
      BY <2>3 DEF JobFits, IsJob
    <3>2. job.as \in Profiles /\ job.name \in Names /\ IsProfile(job.as)
      BY <2>3 DEF JobFits, IsJob
    <3>3. pin \in Strings
      BY <2>0, <3>2, StringsAssumption DEF Profiles
    <3> HIDE DEF j
    <3>4. j.as \in Profiles /\ IsProfile(j.as)
      BY <3>1, <3>2, <3>3 DEF Profiles, IsProfile, ProfileFields
    <3>5. /\ j.as.SecretRef = job.as.SecretRef /\ j.as.Server = job.as.Server
          /\ j.as.Type = job.as.Type /\ j.as.TokenID = job.as.TokenID
          /\ j.as.User = job.as.User
      BY <3>1, <3>2 DEF IsProfile, ProfileFields
    <3>6. IsJob(j)
      BY <2>3, <3>1, <3>4, <3>5 DEF JobFits, IsJob
    <3> QED
      BY <3>4, <3>6 DEF JobFits
  <2>5. j.does = job.does
    BY <2>3 DEF JobFits, IsJob
  <2> HIDE DEF j
  <2> QED
    BY <1>11, <2>2, <2>3, <2>4, <2>5, OneWriter DEF Pin, store
<1> QED
  BY <1>1, <1>2, <1>3, <1>4, <1>5, <1>6, <1>8, <1>9, <1>10, <1>11 DEF WriterStep

LEMMA ConnectKeeps ==
    ASSUME SInv, RInv, Connect
    PROVE  RInv'
<1>1. CASE Load
  <2>1. Shaped(disk.file)
    BY DEF SInv, Good
  <2>2. UNCHANGED <<env, flags, settings>> /\ settings = {} /\ Shaped(file')
    BY <1>1, <2>1 DEF Load, RInv, IInv
  <2> QED
    BY <2>2 DEF RInv, IInv, Shaped
<1>2. CASE AskKeyring
  <2>1. UNCHANGED <<file, env, flags, settings>> /\ settings = {}
    BY <1>2 DEF AskKeyring, RInv
  <2> QED
    BY <2>1 DEF RInv, IInv
<1>3. CASE Provider /\ reader' = "done"
  BY <1>3, ProviderKeeps DEF RInv
<1> QED
  BY <1>1, <1>2, <1>3 DEF Connect

LEMMA StoreInvariant == StoreSpec => [](SInv /\ RInv)
<1>1. StoreInit => SInv /\ RInv
  <2> SUFFICES ASSUME StoreInit
               PROVE  RInv
    BY SInvInit
  <2>1. NoEnv.INSECURE \in Flag /\ IsCommandLine(NoFlags)
    BY DEF NoEnv, NoFlags, IsCommandLine, Flag
  <2>2. env.INSECURE \in Flag /\ IsCommandLine(flags)
    <3>1. \/ env = NoEnv /\ flags = NoFlags
          \/ env \in Envs /\ flags \in CommandLines
      BY DEF StoreInit
    <3> QED
      BY <2>1, <3>1, InputsAreShaped, EnvsAssumption, CommandLinesAssumption
  <2>3. file = NoFile /\ settings = {}
    BY DEF StoreInit
  <2> QED
    BY <2>2, <2>3, EmptyFile DEF RInv, IInv
<1>2. SInv /\ RInv /\ [StoreNext]_svars => (SInv /\ RInv)'
  <2> SUFFICES ASSUME SInv, RInv, [StoreNext]_svars
               PROVE  SInv' /\ RInv'
    OBVIOUS
  <2>1. UNCHANGED <<vars, reader>> => RInv'
    BY DEF RInv, IInv, ov, vars, inputs
  <2>2. UNCHANGED <<store, writers>> => SInv'
    BY DEF SInv, Good, Shaped, Held, Finds, StarterComes, store, writers
  <2>3. CASE Connect
    BY <2>2, <2>3, ConnectKeeps DEF Connect
  <2>4. ASSUME NEW w \in Writers, WriterStep(w)
        PROVE  SInv' /\ RInv'
    BY <2>1, <2>4, WriterKeeps DEF WriterStep
  <2>5. CASE UNCHANGED svars
    BY <2>1, <2>2, <2>5 DEF svars
  <2> QED
    BY <2>3, <2>4, <2>5 DEF StoreNext
<1> QED
  BY <1>1, <1>2, PTL DEF StoreSpec

\* The secret is in the keyring before the file refers to it, whoever is
\* killed, whatever the others write and wherever a write breaks off.
THEOREM RefHasSecretHolds == StoreSpec => []RefHasSecret
<1>1. SInv => RefHasSecret
  BY DEF SInv, Good, Held, Finds, RefHasSecret
<1> QED
  BY <1>1, StoreInvariant, PTL

\* What OverridesWin says of flags and variables, while the file is rewritten.
THEOREM StoreOverridesWin == StoreSpec => []OverridesWin
<1>1. RInv => OverridesWin
  BY SettingsOverride DEF RInv
<1> QED
  BY <1>1, StoreInvariant, PTL

\* And everything else from one profile of the file that was read.
THEOREM StoreOneProfileOnly == StoreSpec => []OneProfileOnly
<1>1. RInv => OneProfileOnly
  BY SettingsOneProfile DEF RInv
<1> QED
  BY <1>1, StoreInvariant, PTL

----------------------------------------------------------------------------
(***************************************************************************)
(* What an edit is for: what the next command connects to.                 *)
(***************************************************************************)
LEMMA NothingIsSet ==
    /\ NoFlags.Context = None /\ NoFlags.Profile = None /\ NoFlags.Server = None
    /\ NoFlags.TokenID = None /\ NoFlags.Secret = None /\ NoFlags.Fingerprint = None
    /\ NoEnv.CONTEXT = None /\ NoEnv.PROFILE = None /\ NoEnv.SERVER = None
    /\ NoEnv.TOKEN_ID = None /\ NoEnv.USER = None /\ NoEnv.TOKEN_SECRET = None
    /\ NoEnv.PASSWORD = None /\ NoEnv.TLS_FINGERPRINT = None
BY DEF NoFlags, NoEnv

\* The current context counts where nothing else is said.
LEMMA CurrentCounts ==
    ASSUME NEW f, f.CurrentContext \in DOMAIN f.Contexts, None \notin DOMAIN f.Contexts
    PROVE  /\ ProfileName(f, NoEnv, NoFlags) = f.Contexts[f.CurrentContext].Profile
           /\ Remote(f, NoEnv, NoFlags) = f.Contexts[f.CurrentContext].Remote
<1>1. ContextName(f, NoEnv, NoFlags) = f.CurrentContext
  BY NothingIsSet, FirstOfThree DEF ContextName
<1>2. NamedProfile(NoEnv, NoFlags) = None
  BY NothingIsSet, FirstOfTwo DEF NamedProfile
<1> QED
  BY <1>1, <1>2 DEF ProfileName, Remote, ByContext

\* The settings are those of the profile then.
LEMMA ProfileCounts ==
    ASSUME NEW f, NEW kr
    PROVE  LET s == Resolve(f, NoEnv, NoFlags, kr)
               prof == Profile(f, ProfileName(f, NoEnv, NoFlags))
           IN /\ s.Server = prof.Server /\ s.TokenID = prof.TokenID
              /\ s.User = prof.User /\ s.TLSFinger = prof.Finger
              /\ s.AuthType = orDefault(prof.Type, "token")
              /\ s.Secret = resolveSecret(prof, NoEnv, kr)
<1> DEFINE s == Resolve(f, NoEnv, NoFlags, kr)
           prof == Profile(f, ProfileName(f, NoEnv, NoFlags))
           secret == resolveSecret(prof, NoEnv, kr)
<1>1. /\ s.Server = Layer(NoFlags.Server, NoEnv.SERVER, prof.Server, None)
      /\ s.TokenID = Layer(NoFlags.TokenID, NoEnv.TOKEN_ID, prof.TokenID, None)
      /\ s.User = Layer(None, NoEnv.USER, prof.User, None)
      /\ s.TLSFinger = Layer(NoFlags.Fingerprint, NoEnv.TLS_FINGERPRINT, prof.Finger, None)
      /\ s.AuthType = orDefault(prof.Type, "token")
      /\ s.Secret = Layer(NoFlags.Secret,
                          firstNonEmpty(<<NoEnv.PASSWORD, NoEnv.TOKEN_SECRET>>), secret, None)
  BY DEF Resolve
<1>2. firstNonEmpty(<<NoEnv.PASSWORD, NoEnv.TOKEN_SECRET>>) = None
  BY NothingIsSet, FirstOfTwo
<1>3. \A v : Layer(None, None, v, None) = v
  BY FirstOfFour DEF Layer
<1> HIDE DEF s, prof, secret
<1>4. /\ s.Server = prof.Server /\ s.TokenID = prof.TokenID
      /\ s.User = prof.User /\ s.TLSFinger = prof.Finger
      /\ s.AuthType = orDefault(prof.Type, "token") /\ s.Secret = secret
  BY <1>1, <1>2, <1>3, NothingIsSet
<1> QED
  BY <1>4 DEF s, prof, secret

\* After a login the next command has its server and its credential, and can
\* connect unless one of them is empty.
LEMMA LoginCounts ==
    ASSUME NEW f, NEW job, NEW prof, NEW kr, Shaped(f), JobFits(job), job.does = "login",
           \/ prof = [job.as EXCEPT !.SecretRef = "keyring"] /\ kr = Holds(job.typed)
           \/ prof = [job.as EXCEPT !.Secret = job.typed]
    PROVE  LET s == Resolve(Login(f, job, prof), NoEnv, NoFlags, kr)
           IN /\ ~ResolveFails(Login(f, job, prof), NoEnv, NoFlags, kr)
              /\ Valid(s) <=> job.as.Server # None /\ job.typed # None
              /\ s.Server = job.as.Server
              /\ s.Secret = job.typed /\ s.TLSFinger = job.as.Finger
<1> DEFINE g == Login(f, job, prof)
           n == job.name
           s == Resolve(g, NoEnv, NoFlags, kr)
<1>1. /\ n # None /\ IsProfile(job.as)
      /\ job.as.SecretRef = None
      /\ \/ job.as.Type = "token" /\ job.as.TokenID # None
         \/ job.as.Type = "ticket" /\ job.as.User # None
  BY NamesAre DEF JobFits, IsJob
<1>2. /\ g.CurrentContext = n
      /\ DOMAIN g.Contexts = DOMAIN f.Contexts \cup {n}
      /\ g.Contexts[n] = [Profile |-> n, Remote |-> None]
      /\ n \in DOMAIN g.Profiles /\ g.Profiles[n] = prof
  BY DEF Login, Put
<1> HIDE DEF g, n
<1>3. ProfileName(g, NoEnv, NoFlags) = n
  <2>1. None \notin DOMAIN g.Contexts
    BY <1>1, <1>2 DEF Shaped
  <2> QED
    BY <1>2, <2>1, CurrentCounts
<1>4. Profile(g, n) = prof
  BY <1>1, <1>2 DEF Profile
<1>5. /\ prof.Server = job.as.Server /\ prof.TokenID = job.as.TokenID
      /\ prof.User = job.as.User /\ prof.Finger = job.as.Finger
      /\ prof.Type = job.as.Type
  BY <1>1 DEF IsProfile, ProfileFields
<1>6. resolveSecret(prof, NoEnv, kr) = job.typed /\ ~SecretFails(prof, kr)
  <2>1. CASE prof = [job.as EXCEPT !.SecretRef = "keyring"] /\ kr = Holds(job.typed)
    BY <1>1, <2>1 DEF resolveSecret, SecretFails, AsksKeyring, Holds, IsProfile, ProfileFields
  <2>2. CASE prof = [job.as EXCEPT !.Secret = job.typed]
    <3>1. prof.SecretRef = None /\ prof.Secret = job.typed
      BY <1>1, <2>2 DEF IsProfile, ProfileFields
    <3>2. None # "keyring" /\ None # "env" /\ None # "astray"
      BY Zenon DEF None
    <3> QED
      BY <3>1, <3>2 DEF resolveSecret, SecretFails, AsksKeyring
  <2> QED
    BY <2>1, <2>2
<1>7. /\ s.Server = prof.Server /\ s.TokenID = prof.TokenID
      /\ s.User = prof.User /\ s.TLSFinger = prof.Finger
      /\ s.AuthType = orDefault(prof.Type, "token")
      /\ s.Secret = resolveSecret(prof, NoEnv, kr)
  BY <1>3, <1>4, ProfileCounts
<1> HIDE DEF s
<1>8. s.AuthType = job.as.Type
  <2>1. None # "token" /\ None # "ticket"
    BY Zenon DEF None
  <2> QED
    BY <1>1, <1>5, <1>7, <2>1 DEF orDefault
<1>9. /\ Valid(s) <=> job.as.Server # None /\ job.typed # None
      /\ ~ResolveFails(g, NoEnv, NoFlags, kr)
  <2>1. Valid(s) <=> job.as.Server # None /\ job.typed # None
    BY <1>1, <1>5, <1>6, <1>7, <1>8 DEF Valid
  <2>2. ~ResolveFails(g, NoEnv, NoFlags, kr)
    BY <1>2, <1>3, <1>6 DEF ResolveFails
  <2> QED
    BY <2>1, <2>2
<1>10. s.Server = job.as.Server /\ s.Secret = job.typed /\ s.TLSFinger = job.as.Finger
  BY <1>5, <1>6, <1>7
<1> QED
  BY <1>9, <1>10 DEF s, g

\* A profile that is what it was, with the secret that it had, is seen as it
\* was.
LEMMA SeenAgain ==
    ASSUME NEW f, NEW g, NEW kept, NEW kept2, NEW n, n # None,
           g.Profiles[n] = f.Profiles[n], kept2[n] = kept[n]
    PROVE  Seen(g, kept2, n) = Seen(f, kept, n)
<1> DEFINE flag == [NoFlags EXCEPT !.Profile = n]
<1>1. flag.Profile = n
  BY DEF NoFlags
<1> HIDE DEF flag
<1>2. ASSUME NEW h
      PROVE  /\ ProfileName(h, NoEnv, flag) = n /\ Remote(h, NoEnv, flag) = None
             /\ Profile(h, n) = h.Profiles[n]
  <2>1. NamedProfile(NoEnv, flag) = n
    BY <1>1, FirstOfTwo DEF NamedProfile
  <2> QED
    BY <2>1 DEF ProfileName, Remote, ByContext, Profile
<1> DEFINE As(context, prof, kr) ==
              [ContextName |-> context, ProfileName |-> n, Remote |-> None,
               Provider |-> Layer(flag.Provider, None, prof.Provider, "pve"),
               Server |-> Layer(flag.Server, NoEnv.SERVER, prof.Server, None),
               AuthType |-> orDefault(prof.Type, "token"),
               TokenID |-> Layer(flag.TokenID, NoEnv.TOKEN_ID, prof.TokenID, None),
               User |-> Layer(None, NoEnv.USER, prof.User, None),
               Secret |-> Layer(flag.Secret,
                                firstNonEmpty(<<NoEnv.PASSWORD, NoEnv.TOKEN_SECRET>>),
                                resolveSecret(prof, NoEnv, kr), None),
               TLSFinger |-> Layer(flag.Fingerprint, NoEnv.TLS_FINGERPRINT, prof.Finger, None),
               TLSInsecure |-> Insecure(flag, NoEnv, prof),
               Output |-> Layer(flag.Output, NoEnv.OUTPUT, prof.Output, "table")]
<1>3. ASSUME NEW h, NEW kr
      PROVE  Resolve(h, NoEnv, flag, kr)
                = As(ContextName(h, NoEnv, flag), h.Profiles[n], kr)
  BY <1>2 DEF Resolve
<1>4. ASSUME NEW c, NEW prof, NEW kr
      PROVE  [As(c, prof, kr) EXCEPT !.ContextName = None] = As(None, prof, kr)
  OBVIOUS
<1> HIDE DEF As
<1>5. [Resolve(g, NoEnv, flag, kept2[n]) EXCEPT !.ContextName = None]
         = [Resolve(f, NoEnv, flag, kept[n]) EXCEPT !.ContextName = None]
  BY <1>3, <1>4
<1> QED
  BY <1>5 DEF Seen, flag

----------------------------------------------------------------------------
(***************************************************************************)
(* Types.                                                                  *)
(***************************************************************************)
Typed(d) ==
    /\ d.is \in {"absent", "yaml", "garbled"} /\ d.bad \subseteq Names
    /\ \A n \in DOMAIN d.file.Profiles : d.file.Profiles[n] \in Profiles

TInv ==
    /\ secrets \in [Names -> Answers]
    /\ Typed(disk) /\ \A w \in Writers : Typed(work[w])

LEMMA StringsAre ==
    /\ None \in Strings /\ "pve" \in Strings /\ "token" \in Strings
    /\ "CHANGE-ME" \in Strings /\ StarterID \in Strings /\ "probed" \in Strings
    /\ "stored" \in Strings /\ "7" \in Strings /\ "cut" \in Strings
BY StringsAssumption, Zenon

LEMMA YAMLSays ==
    \A g, bad : YAML(g, bad).is = "yaml" /\ YAML(g, bad).file = g /\ YAML(g, bad).bad = bad
BY DEF YAML

LEMMA UnwrittenIsTyped == Unwritten \in Profiles
BY StringsAre DEF Unwritten, Profiles, Flag

LEMMA EmptyIsTyped == Typed(Absent) /\ Typed(Garbled) /\ Typed(Truncated)
BY EmptyFile DEF Typed, Absent, Garbled, Truncated, YAML

LEMMA PutIsTyped ==
    ASSUME NEW P, NEW n, NEW prof \in Profiles,
           \A m \in DOMAIN P : P[m] \in Profiles
    PROVE  \A m \in DOMAIN Put(P, n, prof) : Put(P, n, prof)[m] \in Profiles
BY DEF Put

LEMMA LoginIsTyped ==
    ASSUME NEW d, NEW job, NEW prof \in Profiles, Typed(d)
    PROVE  Typed(YAML(Login(d.file, job, prof), {}))
<1> DEFINE g == Login(d.file, job, prof)
<1>1. g.Profiles = Put(d.file.Profiles, job.name, prof)
  BY DEF Login
<1> HIDE DEF g
<1>2. \A n \in DOMAIN g.Profiles : g.Profiles[n] \in Profiles
  BY <1>1, PutIsTyped DEF Typed
<1>3. Typed(YAML(g, {}))
  BY <1>2 DEF Typed, YAML
<1> QED
  BY <1>3 DEF g

LEMMA SetValueIsTyped ==
    ASSUME NEW d, NEW job, Typed(d), Shaped(d.file), JobFits(job),
           job.does \in {"use", "set"}
    PROVE  Typed(SetValue(d, job))
<1> DEFINE f == d.file
           n == job.name
           v == coerceScalar(job.value)
           b == coerceBool(v)
           prof == IF n \in DOMAIN f.Profiles THEN f.Profiles[n] ELSE Unwritten
           next == SetValue(d, job)
<1>1. /\ job.key \in {"current_context", "server", "secret", "verify"}
      /\ job.key = "current_context" \/ n \in Names
      /\ v \in Strings /\ b \in Flag
  <2>1. /\ job.key \in {"current_context", "server", "secret", "verify"}
        /\ job.key = "current_context" \/ n \in Names
        /\ job.value \in Strings
    BY DEF JobFits, IsJob
  <2>2. v \in Strings
    BY <2>1, StringsAre DEF coerceScalar
  <2>3. b \in Flag
    BY DEF coerceBool, Flag
  <2> QED
    BY <2>1, <2>2, <2>3
<1>2. prof \in Profiles
  BY UnwrittenIsTyped DEF Typed
<1>3. CASE job.key = "current_context"
  <2>1. next = YAML([f EXCEPT !.CurrentContext = v], d.bad)
    BY <1>3 DEF SetValue
  <2>2. [f EXCEPT !.CurrentContext = v].Profiles = f.Profiles
    BY DEF Shaped
  <2>3. next.is = "yaml" /\ next.bad = d.bad /\ next.file.Profiles = f.Profiles
    <3> HIDE DEF next, v, f
    <3> QED
      BY <2>1, <2>2, YAMLSays
  <2> HIDE DEF next
  <2>4. Typed(next)
    BY <2>3 DEF Typed
  <2> QED
    BY <2>4 DEF next
<1>4. CASE job.key # "current_context"
  <2>1. PICK p : /\ \/ p = [prof EXCEPT !.Server = v]
                    \/ p = [prof EXCEPT !.Secret = v]
                    \/ p = [prof EXCEPT !.Verify = b]
                 /\ next.file = [f EXCEPT !.Profiles = Put(@, n, p)]
                 /\ next.is = "yaml"
                 /\ next.bad \subseteq d.bad \cup {n}
    <3>1. CASE job.key = "server"
      BY <3>1 DEF SetValue, YAML
    <3>2. CASE job.key = "secret"
      BY <3>2 DEF SetValue, YAML
    <3>3. CASE job.key = "verify"
      BY <3>3 DEF SetValue, YAML
    <3> QED
      BY <1>1, <1>4, <3>1, <3>2, <3>3
  <2> HIDE DEF prof, v, b, next, n
  <2>2. p \in Profiles
    BY <1>1, <1>2, <2>1 DEF Profiles
  <2>3. next.file.Profiles = Put(f.Profiles, n, p)
    BY <2>1 DEF Shaped
  <2>4. \A m \in DOMAIN next.file.Profiles : next.file.Profiles[m] \in Profiles
    BY <2>2, <2>3, PutIsTyped DEF Typed
  <2>5. next.bad \subseteq Names
    BY <1>1, <1>4, <2>1 DEF Typed
  <2> QED
    BY <2>1, <2>4, <2>5 DEF Typed, next
<1> QED
  BY <1>3, <1>4

LEMMA SeamIsTyped ==
    ASSUME NEW new, NEW old, NEW b,
           \A n \in DOMAIN new : new[n] \in Profiles,
           \A n \in DOMAIN old : old[n] \in Profiles
    PROVE  Seam(new, old, b) \in Profiles
<1> DEFINE p == Of(new, b.seam)
           q == Of(old, b.rest)
           seam == Seam(new, old, b)
           Val(x) == IF x \in b.values THEN p[x]
                    ELSE IF x = b.cut THEN Cut(x, p[x]) ELSE Strayed(x, q[x])
<1>1. p \in Profiles /\ q \in Profiles
  BY UnwrittenIsTyped DEF Of
<1>2. DOMAIN Unwritten = ProfileFields
  BY UnwrittenIsProfile DEF IsProfile
<1> HIDE DEF p, q
<1>3. seam = [x \in ProfileFields |-> Val(x)]
  BY <1>2 DEF Seam, p, q
<1>4. \A x \in ProfileFields \ {"SecretRef", "Verify"} :
         p[x] \in Strings /\ q[x] \in Strings
  BY <1>1 DEF Profiles, ProfileFields
<1>5. \A x \in ProfileFields \ {"SecretRef", "Verify"} : Val(x) \in Strings
  BY <1>4, StringsAre DEF Cut, Strayed
<1>6. Val("SecretRef") \in {None, "keyring", "env", "astray"}
  BY <1>1 DEF Profiles, Cut, Strayed
<1>7. Val("Verify") \in Flag
  BY <1>1 DEF Profiles, Cut, Strayed, Flag
<1> HIDE DEF Val, seam
<1>8. seam = [Provider |-> Val("Provider"), Server |-> Val("Server"), Type |-> Val("Type"),
              TokenID |-> Val("TokenID"), User |-> Val("User"),
              SecretRef |-> Val("SecretRef"), Secret |-> Val("Secret"),
              Finger |-> Val("Finger"), Verify |-> Val("Verify"), Output |-> Val("Output")]
  BY <1>3 DEF ProfileFields
<1>9. seam \in Profiles
  BY <1>5, <1>6, <1>7, <1>8 DEF Profiles, ProfileFields
<1> QED
  BY <1>9 DEF seam

LEMMA BrokenIsTyped ==
    ASSUME NEW d, NEW old, Typed(d), Typed(old), NEW e \in Broken(d, old)
    PROVE  Typed(e)
<1>1. CASE e = Garbled
  BY <1>1, EmptyIsTyped
<1>2. ASSUME NEW b \in Breaks, e = YAML(Joined(d.file, old.file, b), b.bad)
      PROVE  Typed(e)
  <2> DEFINE new == d.file.Profiles
             was == old.file.Profiles
             whole == Splice(new, was, b.profiles)
             seam == Seam(new, was, b)
             P == IF b.seam = None THEN whole ELSE Put(whole, b.seam, seam)
  <2>1. e.is = "yaml" /\ e.bad = b.bad /\ e.file.Profiles = P
    BY <1>2 DEF YAML, Joined
  <2>2. b.bad \subseteq Names
    BY BreaksAssumption DEF IsBreak
  <2>3. \A n \in DOMAIN whole : whole[n] \in Profiles
    BY DEF Splice, Typed
  <2>4. seam \in Profiles
    BY SeamIsTyped DEF Typed
  <2> HIDE DEF whole, seam
  <2>5. \A n \in DOMAIN P : P[n] \in Profiles
    BY <2>3, <2>4, PutIsTyped
  <2> HIDE DEF P
  <2> QED
    BY <2>1, <2>2, <2>5 DEF Typed
<1> QED
  BY <1>1, <1>2 DEF Broken

LEMMA StarterIsTyped == Typed(YAML(Starter, {}))
<1> DEFINE prof == [Unwritten EXCEPT !.Provider = "pve", !.Server = "CHANGE-ME",
                       !.Type = "token", !.TokenID = StarterID, !.SecretRef = "keyring"]
<1>1. prof \in Profiles
  BY UnwrittenIsTyped, StringsAre DEF Profiles
<1> HIDE DEF prof
<1>2. Starter.Profiles = [default |-> prof]
  BY DEF Starter, prof
<1>3. DOMAIN Starter.Profiles = {"default"} /\ Starter.Profiles["default"] = prof
  BY <1>2
<1> QED
  BY <1>1, <1>3 DEF Typed, YAML

LEMMA InitTInv == StoreInit => TInv
<1> SUFFICES ASSUME StoreInit
             PROVE  TInv
  OBVIOUS
<1>1. Typed(disk)
  <2>1. CASE \E f \in Files : disk = YAML(f, {})
    BY <2>1, FilesAssumption DEF YAML, Typed, IsFile
  <2>2. CASE disk \in Disks
    BY <2>2, DisksAssumption DEF Typed, IsFile
  <2> QED
    BY <2>1, <2>2 DEF StoreInit
<1>2. secrets \in [Names -> Answers]
  BY StringsAre DEF StoreInit, Answers, Holds, Unreadable
<1> QED
  BY <1>1, <1>2, EmptyIsTyped DEF TInv, StoreInit

LEMMA StoreSecretIsTyped ==
    ASSUME SInv, TInv, NEW w \in Writers, StoreSecret(w)
    PROVE  TInv'
<1> DEFINE job == jobs[w]
           inRing == [job.as EXCEPT !.SecretRef = "keyring"]
           inFile == [job.as EXCEPT !.Secret = job.typed]
<1>1. job.name \in Names /\ job.typed \in Strings /\ job.as \in Profiles
  BY DEF SInv, JobFits, IsJob, StoreSecret, At
<1>2. inRing \in Profiles /\ inFile \in Profiles
  BY <1>1 DEF Profiles
<1>3. Typed(work[w]) /\ secrets \in [Names -> Answers] /\ Typed(disk)
  BY DEF TInv
<1>4. disk' = disk
  BY DEF StoreSecret
<1> HIDE DEF inRing, inFile
<1>5. \/ secrets' = [secrets EXCEPT ![job.name] = Holds(job.typed)]
         /\ work' = [work EXCEPT ![w] = YAML(Login(work[w].file, job, inRing), {})]
      \/ secrets' = secrets
         /\ work' = [work EXCEPT ![w] = YAML(Login(work[w].file, job, inFile), {})]
  BY DEF StoreSecret, Keeps, inRing, inFile
<1>6. secrets' \in [Names -> Answers]
  <2>1. Holds(job.typed) \in Answers
    BY <1>1 DEF Answers, Holds
  <2> QED
    BY <1>3, <1>5, <2>1
<1>7. PICK d : work' = [work EXCEPT ![w] = d] /\ Typed(d)
  BY <1>2, <1>3, <1>5, LoginIsTyped
<1> QED
  BY <1>3, <1>4, <1>6, <1>7 DEF TInv, SInv

\* A step that leaves the secrets alone.
LEMMA EditIsTyped ==
    ASSUME SInv, TInv, NEW w \in Writers, UNCHANGED secrets,
           UNCHANGED work \/ \E d : work' = [work EXCEPT ![w] = d] /\ Typed(d),
           UNCHANGED disk \/ Typed(disk')
    PROVE  TInv'
<1>1. Typed(disk')
  BY DEF TInv
<1>2. \A v \in Writers : Typed(work'[v])
  BY DEF TInv, SInv
<1> QED
  BY <1>1, <1>2 DEF TInv, Typed

LEMMA WriterIsTyped ==
    ASSUME SInv, TInv, NEW w \in Writers, WriterStep(w)
    PROVE  TInv'
<1>1. CASE Show(w) \/ UseChecks(w) \/ Kill(w) \/ Pin(w)
  BY <1>1, EditIsTyped DEF Show, UseChecks, Kill, Pin, store
<1>2. CASE LoginLoads(w)
  <2>1. Typed(disk)
    BY DEF TInv
  <2> QED
    BY <1>2, <2>1, EditIsTyped DEF LoginLoads, store, Keeps
<1>3. CASE StoreSecret(w)
  BY <1>3, StoreSecretIsTyped
<1>4. CASE SetReads(w)
  <2>1. JobFits(jobs[w]) /\ jobs[w].does \in {"use", "set"}
    BY <1>4 DEF SInv, SetReads, At
  <2>2. Typed(SetValue(disk, jobs[w]))
    BY <2>1, SetValueIsTyped DEF TInv, SInv, Good
  <2> QED
    BY <1>4, <2>2, EditIsTyped DEF SetReads, store, Keeps
<1>5. CASE InitStats(w)
  BY <1>5, StarterIsTyped, EditIsTyped DEF InitStats, store, Keeps
<1>6. CASE OpenFile(w)
  BY <1>6, EmptyIsTyped, EditIsTyped DEF OpenFile
<1>7. CASE WriteFile(w)
  <2>1. Typed(work[w]) /\ Typed(disk)
    BY DEF TInv
  <2>2. Typed(disk')
    BY <1>7, <2>1, BrokenIsTyped DEF WriteFile, Overlaid
  <2> QED
    BY <1>7, <2>2, EditIsTyped DEF WriteFile
<1> QED
  BY <1>1, <1>2, <1>3, <1>4, <1>5, <1>6, <1>7 DEF WriterStep

----------------------------------------------------------------------------
(***************************************************************************)
(* The history of an edit that nobody interferes with.                     *)
(***************************************************************************)
Places == {"start", "pin", "keyring", "read", "open", "write", "done"}

\* What was read is still there, ...
AsRead(w) == /\ Shaped(base[w].file) /\ DOMAIN base[w].file.Profiles \subseteq Names
             /\ secrets = base[w].secrets

\* ... and what is about to be written is the edit of it, the credential of a
\* login stored already.
LoginReady(w) ==
    LET job == jobs[w]
        was == base[w]
    IN /\ Shaped(was.file) /\ DOMAIN was.file.Profiles \subseteq Names
       /\ \A n \in Names \ {job.name} : secrets[n] = was.secrets[n]
       /\ \/ work[w].file = Login(was.file, job, [job.as EXCEPT !.SecretRef = "keyring"])
             /\ secrets[job.name] = Holds(job.typed)
          \/ work[w].file = Login(was.file, job, [job.as EXCEPT !.Secret = job.typed])

SetReady(w) ==
    /\ AsRead(w)
    /\ \E d : d.file = base[w].file /\ work[w] = SetValue(d, jobs[w])
    /\ jobs[w].does = "use" => jobs[w].value \in DOMAIN base[w].file.Contexts

Clean(w) ==
    /\ pc[w] \in {"pin", "keyring"} =>
          jobs[w].does = "login" /\ work[w].file = base[w].file /\ AsRead(w)
    /\ pc[w] = "read" =>
          jobs[w].does = "use" /\ jobs[w].value \in DOMAIN disk.file.Contexts
    /\ pc[w] \in {"open", "write"} =>
          /\ jobs[w].does = "login" => LoginReady(w)
          /\ jobs[w].does \in {"use", "set"} => SetReady(w)
    /\ pc[w] = "write" => disk = Truncated

Turn(w) ==
    /\ pc[w] \in Places /\ exit[w] \in {"none", "ok", "error", "killed"}
    /\ exit[w] # "none" <=> pc[w] = "done"

HInv ==
    /\ DOMAIN pc = Writers /\ DOMAIN exit = Writers /\ DOMAIN base = Writers
    /\ alone \in [Writers -> BOOLEAN]
    /\ \A w \in Writers : Turn(w) /\ (alone[w] => Clean(w))

LEMMA InitHInv == StoreInit => HInv
<1> SUFFICES ASSUME StoreInit
             PROVE  HInv
  OBVIOUS
<1>1. /\ pc = [w \in Writers |-> "start"] /\ exit = [w \in Writers |-> "none"]
      /\ base = [w \in Writers |-> Now] /\ alone = [w \in Writers |-> TRUE]
  BY DEF StoreInit
<1>2. \A w \in Writers : Turn(w) /\ Clean(w)
  BY <1>1 DEF Turn, Clean, Places
<1> QED
  BY <1>1, <1>2 DEF HInv

\* Where a writer goes: on, or it ends.
LEMMA Moves ==
    ASSUME HInv, NEW w \in Writers,
           \/ \E where \in Places \ {"done"} : pc[w] # "done" /\ Goto(w, where)
           \/ \E code \in {"ok", "error", "killed"} : Ends(w, code)
    PROVE  /\ DOMAIN pc' = Writers /\ DOMAIN exit' = Writers
           /\ Turn(w)'
           /\ \A v \in Writers \ {w} : pc'[v] = pc[v] /\ exit'[v] = exit[v]
BY DEF HInv, Turn, Goto, Ends, Places

\* The step of a writer as the others see it: they are where they were, and
\* nothing changes under one that is under way and still alone.
LEMMA OthersSee ==
    ASSUME SInv, HInv, NEW w \in Writers,
           DOMAIN pc' = Writers, DOMAIN exit' = Writers, Turn(w)',
           \A v \in Writers \ {w} : pc'[v] = pc[v] /\ exit'[v] = exit[v],
           UNCHANGED work \/ \E d : work' = [work EXCEPT ![w] = d],
           UNCHANGED base \/ base' = [base EXCEPT ![w] = Now],
           UNCHANGED jobs \/ \E j : jobs' = [jobs EXCEPT ![w] = j],
           UNCHANGED <<alone, store>> \/ Touches(w),
           alone'[w] => Clean(w)'
    PROVE  HInv'
<1>1. DOMAIN base' = Writers /\ alone' \in [Writers -> BOOLEAN]
  BY DEF HInv, Touches
<1>2. ASSUME NEW v \in Writers, v # w
      PROVE  Turn(v)' /\ (alone'[v] => Clean(v)')
  <2>1. /\ pc'[v] = pc[v] /\ exit'[v] = exit[v] /\ work'[v] = work[v]
        /\ base'[v] = base[v] /\ jobs'[v] = jobs[v]
    BY <1>2 DEF HInv, SInv
  <2>2. Turn(v)'
    BY <2>1 DEF HInv, Turn
  <2>3. CASE pc[v] \in {"start", "done"}
    BY <2>1, <2>2, <2>3 DEF Clean
  <2>4. CASE pc[v] \notin {"start", "done"}
    <3>1. alone'[v] => alone[v] /\ disk' = disk /\ secrets' = secrets
      BY <1>2, <2>4 DEF Touches, store
    <3>2. ASSUME alone'[v] PROVE Clean(v)'
      <4>1. Clean(v)
        BY <3>1, <3>2 DEF HInv
      <4>2. AsRead(v) => AsRead(v)'
        BY <2>1, <3>1, <3>2 DEF AsRead
      <4>3. LoginReady(v) => LoginReady(v)'
        BY <2>1, <3>1, <3>2 DEF LoginReady
      <4>4. SetReady(v) => SetReady(v)'
        BY <2>1, <4>2 DEF SetReady
      <4> QED
        BY <2>1, <3>1, <3>2, <4>1, <4>2, <4>3, <4>4 DEF Clean
    <3> QED
      BY <2>2, <3>2
  <2> QED
    BY <2>2, <2>3, <2>4
<1>3. ASSUME NEW v \in Writers
      PROVE  Turn(v)' /\ (alone'[v] => Clean(v)')
  BY <1>2
<1> QED
  BY <1>1, <1>3 DEF HInv

\* A step that ends the writer, or takes it where nothing is asked of it.
LEMMA TouchesNone ==
    ASSUME HInv, NEW w \in Writers, Touches(w)
    PROVE  alone'[w] = alone[w]
BY DEF HInv, Touches

LEMMA EndIsClean ==
    ASSUME HInv, NEW w \in Writers, pc'[w] = "done"
    PROVE  Clean(w)'
BY DEF Clean

LEMMA GoodReads ==
    ASSUME SInv
    PROVE  Shaped(disk.file) /\ DOMAIN disk.file.Profiles \subseteq Names
BY DEF SInv, Good, Held

LEMMA NowReads == Now.file = disk.file /\ Now.secrets = secrets
BY DEF Now

LEMMA WriterHistory ==
    ASSUME SInv, HInv, NEW w \in Writers, WriterStep(w)
    PROVE  HInv'
<1>0. /\ w \in DOMAIN jobs /\ w \in DOMAIN work /\ w \in DOMAIN base /\ w \in DOMAIN pc
      /\ Turn(w) /\ (alone[w] => Clean(w))
  BY DEF SInv, HInv
<1>1. CASE (Show(w) \/ Kill(w)) /\ UNCHANGED jobs
  <2>1. /\ \E code \in {"ok", "error", "killed"} : Ends(w, code)
        /\ UNCHANGED <<work, base, alone, store>>
    BY <1>1 DEF Show, Kill
  <2>2. pc'[w] = "done"
    BY <1>0, <2>1 DEF Ends
  <2> QED
    BY <1>1, <2>1, <2>2, Moves, EndIsClean, OthersSee
<1>2. CASE LoginLoads(w) /\ UNCHANGED jobs
  <2>1. /\ jobs[w].does = "login" /\ pc[w] = "start" /\ UNCHANGED <<alone, store, jobs>>
        /\ \/ Ends(w, "error") /\ UNCHANGED <<work, base>>
           \/ /\ Goto(w, "pin") /\ work' = [work EXCEPT ![w] = disk]
              /\ base' = [base EXCEPT ![w] = Now]
    BY <1>2 DEF LoginLoads, At, Keeps
  <2>2. CASE Ends(w, "error") /\ UNCHANGED <<work, base>>
    <3>1. pc'[w] = "done"
      BY <1>0, <2>2 DEF Ends
    <3> QED
      BY <2>1, <2>2, <3>1, Moves, EndIsClean, OthersSee
  <2>3. CASE /\ Goto(w, "pin") /\ work' = [work EXCEPT ![w] = disk]
             /\ base' = [base EXCEPT ![w] = Now]
    <3>1. pc'[w] = "pin" /\ work'[w] = disk /\ base'[w] = Now
      BY <1>0, <2>3 DEF Goto
    <3>2. AsRead(w)'
      BY <2>1, <3>1, GoodReads, NowReads DEF AsRead, store
    <3>3. Clean(w)'
      BY <2>1, <3>1, <3>2, NowReads DEF Clean
    <3>4. "pin" \in Places \ {"done"} /\ pc[w] # "done"
      BY <2>1 DEF Places
    <3> QED
      BY <2>1, <2>3, <3>3, <3>4, Moves, OthersSee
  <2> QED
    BY <2>1, <2>2, <2>3
<1>3. CASE Pin(w)
  <2>1. /\ jobs[w].does = "login" /\ pc[w] = "pin" /\ UNCHANGED <<work, base, alone, store>>
        /\ Goto(w, "keyring")
        /\ \E pin : jobs' = [jobs EXCEPT ![w].as.Finger = pin]
    BY <1>3 DEF Pin, At
  <2>2. PICK pin : jobs' = [jobs EXCEPT ![w].as.Finger = pin]
    BY <2>1
  <2>3. jobs'[w].does = "login"
    <3>1. DOMAIN jobs[w] = {"does", "name", "as", "typed"}
      BY <2>1 DEF SInv, JobFits, IsJob
    <3>2. jobs'[w] = [jobs[w] EXCEPT !.as.Finger = pin]
      BY <1>0, <2>2
    <3> QED
      BY <2>1, <3>1, <3>2
  <2>4. pc'[w] = "keyring"
    BY <1>0, <2>1 DEF Goto
  <2>5. alone'[w] => Clean(w)'
    BY <1>0, <2>1, <2>3, <2>4 DEF Clean, AsRead, store
  <2>6. "keyring" \in Places \ {"done"} /\ pc[w] # "done"
    BY <2>1 DEF Places
  <2>7. \E j : jobs' = [jobs EXCEPT ![w] = j]
    BY <2>2
  <2> QED
    BY <2>1, <2>5, <2>6, <2>7, Moves, OthersSee
<1>4. CASE StoreSecret(w) /\ UNCHANGED jobs
  <2> DEFINE job == jobs[w]
             inRing == [job.as EXCEPT !.SecretRef = "keyring"]
             inFile == [job.as EXCEPT !.Secret = job.typed]
  <2>1. /\ job.does = "login" /\ pc[w] = "keyring" /\ UNCHANGED <<base, disk, jobs>>
        /\ Goto(w, "open") /\ job.name \in Names
    BY <1>4 DEF StoreSecret, At, SInv, JobFits, IsJob
  <2> HIDE DEF inRing, inFile
  <2>2. \/ /\ secrets' = [secrets EXCEPT ![job.name] = Holds(job.typed)]
           /\ work' = [work EXCEPT ![w] = YAML(Login(work[w].file, job, inRing), {})]
           /\ Touches(w)
        \/ /\ work' = [work EXCEPT ![w] = YAML(Login(work[w].file, job, inFile), {})]
           /\ UNCHANGED <<secrets, alone>>
    BY <1>4 DEF StoreSecret, Keeps, inRing, inFile
  <2>3. pc'[w] = "open" /\ base'[w] = base[w] /\ jobs'[w] = job
    BY <1>0, <2>1 DEF Goto
  <2>4. /\ secrets' = secrets \/ secrets'[job.name] = Holds(job.typed)
        /\ \A n \in Names \ {job.name} : secrets'[n] = secrets[n]
    BY <2>1, <2>2 DEF SInv
  <2>5. \/ /\ work'[w].file = Login(work[w].file, job, inRing)
           /\ secrets'[job.name] = Holds(job.typed)
        \/ work'[w].file = Login(work[w].file, job, inFile)
    <3>1. CASE /\ secrets' = [secrets EXCEPT ![job.name] = Holds(job.typed)]
               /\ work' = [work EXCEPT ![w] = YAML(Login(work[w].file, job, inRing), {})]
      BY <1>0, <2>1, <3>1, YAMLSays DEF SInv
    <3>2. CASE work' = [work EXCEPT ![w] = YAML(Login(work[w].file, job, inFile), {})]
      BY <1>0, <3>2, YAMLSays
    <3> QED
      BY <2>2, <3>1, <3>2
  <2>6. ASSUME alone[w]
        PROVE  Clean(w)'
    <3>1. work[w].file = base[w].file /\ AsRead(w)
      BY <1>0, <2>1, <2>6 DEF Clean
    <3>2. LoginReady(w)'
      BY <2>3, <2>4, <2>5, <3>1 DEF LoginReady, AsRead, inRing, inFile
    <3> QED
      BY <2>1, <2>3, <3>2 DEF Clean
  <2>7. alone'[w] => alone[w]
    BY <2>2, TouchesNone
  <2>8. "open" \in Places \ {"done"} /\ pc[w] # "done"
    BY <2>1 DEF Places
  <2>9. \E d : work' = [work EXCEPT ![w] = d]
    BY <2>2
  <2>10. UNCHANGED <<alone, store>> \/ Touches(w)
    BY <2>1, <2>2 DEF store
  <2> QED
    BY <2>1, <2>6, <2>7, <2>8, <2>9, <2>10, Moves, OthersSee
<1>5. CASE UseChecks(w) /\ UNCHANGED jobs
  <2>1. /\ jobs[w].does = "use" /\ pc[w] = "start" /\ UNCHANGED <<work, alone, store, jobs>>
        /\ base' = [base EXCEPT ![w] = Now]
        /\ \/ Ends(w, "error")
           \/ Goto(w, "read") /\ jobs[w].value \in DOMAIN disk.file.Contexts
    BY <1>5 DEF UseChecks, At
  <2>2. CASE Ends(w, "error")
    <3>1. pc'[w] = "done"
      BY <1>0, <2>2 DEF Ends
    <3> QED
      BY <2>1, <2>2, <3>1, Moves, EndIsClean, OthersSee
  <2>3. CASE Goto(w, "read") /\ jobs[w].value \in DOMAIN disk.file.Contexts
    <3>1. pc'[w] = "read"
      BY <1>0, <2>3 DEF Goto
    <3>2. Clean(w)'
      BY <2>1, <2>3, <3>1 DEF Clean, store
    <3>3. "read" \in Places \ {"done"} /\ pc[w] # "done"
      BY <2>1 DEF Places
    <3> QED
      BY <2>1, <2>3, <3>2, <3>3, Moves, OthersSee
  <2> QED
    BY <2>1, <2>2, <2>3
<1>6. CASE SetReads(w) /\ UNCHANGED jobs
  <2>1. /\ \/ jobs[w].does = "set" /\ pc[w] = "start"
           \/ jobs[w].does = "use" /\ pc[w] = "read"
        /\ UNCHANGED <<alone, store, jobs>>
        /\ \/ Ends(w, "error") /\ UNCHANGED <<work, base>>
           \/ /\ Goto(w, "open") /\ work' = [work EXCEPT ![w] = SetValue(disk, jobs[w])]
              /\ base' = [base EXCEPT ![w] = Now]
    BY <1>6 DEF SetReads, At, Keeps
  <2>2. CASE Ends(w, "error") /\ UNCHANGED <<work, base>>
    <3>1. pc'[w] = "done"
      BY <1>0, <2>2 DEF Ends
    <3> QED
      BY <2>1, <2>2, <3>1, Moves, EndIsClean, OthersSee
  <2>3. CASE /\ Goto(w, "open") /\ work' = [work EXCEPT ![w] = SetValue(disk, jobs[w])]
             /\ base' = [base EXCEPT ![w] = Now]
    <3>1. pc'[w] = "open" /\ work'[w] = SetValue(disk, jobs[w]) /\ base'[w] = Now
      BY <1>0, <2>3 DEF Goto
    <3>2. AsRead(w)'
      BY <2>1, <3>1, GoodReads, NowReads DEF AsRead, store
    <3>3. ASSUME alone[w], jobs[w].does = "use"
          PROVE  jobs[w].value \in DOMAIN disk.file.Contexts
      BY <1>0, <2>1, <3>3 DEF Clean
    <3>4. ASSUME alone[w] PROVE SetReady(w)'
      BY <2>1, <3>1, <3>2, <3>3, <3>4, NowReads DEF SetReady
    <3>5. alone'[w] => Clean(w)'
      BY <2>1, <3>1, <3>4 DEF Clean
    <3>6. "open" \in Places \ {"done"} /\ pc[w] # "done"
      BY <2>1 DEF Places
    <3>7. \E d : work' = [work EXCEPT ![w] = d]
      BY <2>3
    <3> QED
      BY <2>1, <2>3, <3>5, <3>6, <3>7, Moves, OthersSee
  <2> QED
    BY <2>1, <2>2, <2>3
<1>7. CASE InitStats(w) /\ UNCHANGED jobs
  <2>1. /\ jobs[w].does = "init" /\ pc[w] = "start"
        /\ UNCHANGED <<base, alone, store, jobs>>
        /\ \/ Ends(w, "error") /\ UNCHANGED work
           \/ Goto(w, "open") /\ work' = [work EXCEPT ![w] = YAML(Starter, {})]
    BY <1>7 DEF InitStats, At, Keeps
  <2>2. Clean(w)'
    <3>1. pc'[w] \in {"open", "done"} /\ jobs'[w].does = "init"
      BY <1>0, <2>1 DEF Goto, Ends
    <3> QED
      BY <3>1 DEF Clean
  <2>3. "open" \in Places \ {"done"} /\ pc[w] # "done"
    BY <2>1 DEF Places
  <2>4. UNCHANGED work \/ \E d : work' = [work EXCEPT ![w] = d]
    BY <2>1
  <2>5. \/ \E where \in Places \ {"done"} : pc[w] # "done" /\ Goto(w, where)
        \/ \E code \in {"ok", "error", "killed"} : Ends(w, code)
    BY <2>1, <2>3
  <2> QED
    BY <2>1, <2>2, <2>4, <2>5, Moves, OthersSee
<1>8. CASE OpenFile(w) /\ UNCHANGED jobs
  <2>1. /\ pc[w] = "open" /\ UNCHANGED <<work, base, secrets, jobs>>
        /\ \/ disk' = Truncated /\ Touches(w) /\ Goto(w, "write")
           \/ Ends(w, "error") /\ UNCHANGED <<disk, alone>>
    BY <1>8 DEF OpenFile
  <2>2. CASE disk' = Truncated /\ Touches(w) /\ Goto(w, "write")
    <3>1. pc'[w] = "write"
      BY <1>0, <2>2 DEF Goto
    <3>2. ASSUME alone'[w]
          PROVE  Clean(w)'
      <4>1. Clean(w)
        BY <1>0, <2>2, <3>2, TouchesNone
      <4> QED
        BY <2>1, <2>2, <3>1, <4>1 DEF Clean, LoginReady, SetReady, AsRead
    <3>3. "write" \in Places \ {"done"} /\ pc[w] # "done"
      BY <2>1 DEF Places
    <3> QED
      BY <2>1, <2>2, <3>2, <3>3, Moves, OthersSee
  <2>3. CASE Ends(w, "error") /\ UNCHANGED <<disk, alone>>
    <3>1. pc'[w] = "done"
      BY <1>0, <2>3 DEF Ends
    <3> QED
      BY <2>1, <2>3, <3>1, Moves, EndIsClean, OthersSee DEF store
  <2> QED
    BY <2>1, <2>2, <2>3
<1>9. CASE WriteFile(w) /\ UNCHANGED jobs
  <2>1. /\ Ends(w, "ok") \/ Ends(w, "error")
        /\ Touches(w) /\ UNCHANGED <<work, base, secrets>>
    BY <1>9 DEF WriteFile
  <2>2. pc'[w] = "done"
    BY <1>0, <2>1 DEF Ends
  <2> QED
    BY <1>9, <2>1, <2>2, Moves, EndIsClean, OthersSee
<1> QED
  BY <1>1, <1>2, <1>3, <1>4, <1>5, <1>6, <1>7, <1>8, <1>9 DEF WriterStep

LEMMA HistoryInvariant == StoreSpec => [](SInv /\ TInv /\ HInv)
<1>1. StoreInit => SInv /\ TInv /\ HInv
  BY SInvInit, InitTInv, InitHInv
<1>2. SInv /\ TInv /\ HInv /\ [StoreNext]_svars => (SInv /\ TInv /\ HInv)'
  <2> SUFFICES ASSUME SInv, TInv, HInv, [StoreNext]_svars
               PROVE  (SInv /\ TInv /\ HInv)'
    OBVIOUS
  <2>1. ASSUME NEW w \in Writers, WriterStep(w)
        PROVE  (SInv /\ TInv /\ HInv)'
    BY <2>1, WriterKeeps, WriterIsTyped, WriterHistory
  <2>2. CASE UNCHANGED <<store, writers>>
    <3>1. SInv'
      BY <2>2 DEF SInv, Good, Shaped, Held, Finds, StarterComes, store, writers
    <3>2. TInv'
      BY <2>2 DEF TInv, Typed, store, writers
    <3>3. HInv'
      BY <2>2 DEF HInv, Turn, Clean, LoginReady, SetReady, AsRead, store, writers
    <3> QED
      BY <3>1, <3>2, <3>3
  <2> QED
    BY <2>1, <2>2 DEF StoreNext, Connect, svars
<1> QED
  BY <1>1, <1>2, PTL DEF StoreSpec

\* Every profile in the file and every secret is of its type, a process has
\* an exit code when it is done and not before, and a file that a process has
\* opened and that nobody has met is empty.
THEOREM StoreTypeOKHolds == StoreSpec => []StoreTypeOK
<1>1. TInv /\ HInv => StoreTypeOK
  BY DEF TInv, Typed, HInv, Turn, Clean, StoreTypeOK
<1> QED
  BY <1>1, HistoryInvariant, PTL

----------------------------------------------------------------------------
(***************************************************************************)
(* What a command that exits with 0 has done.                              *)
(***************************************************************************)
\* Such an edit is the last step of os.WriteFile, and whoever was alone wrote
\* into an empty file.
LEMMA OkIsWritten ==
    ASSUME SInv, HInv, [StoreNext]_svars, NEW w \in Writers,
           exit'[w] = "ok", exit[w] = "none", alone[w],
           jobs[w].does \in {"login", "use", "set"}
    PROVE  /\ disk' = work[w] /\ secrets' = secrets /\ Clean(w)
           /\ pc[w] = "write"
<1>1. w \in DOMAIN exit /\ Clean(w)
  BY DEF HInv
<1>2. exit' # exit
  BY <1>1
<1>3. PICK v \in Writers : WriterStep(v)
  BY <1>2 DEF StoreNext, Connect, svars, writers
<1>4. ASSUME NEW u \in Writers,
             \/ \E where : Goto(u, where)
             \/ \E code \in {"error", "killed"} : Ends(u, code)
      PROVE  exit'[w] = "ok" => exit[w] = "ok"
  BY <1>1, <1>4 DEF Goto, Ends
<1>5. CASE LoginLoads(v) \/ StoreSecret(v) \/ UseChecks(v) \/ SetReads(v)
           \/ InitStats(v) \/ OpenFile(v) \/ Kill(v) \/ Pin(v)
  <2>1. \/ \E where : Goto(v, where)
        \/ \E code \in {"error", "killed"} : Ends(v, code)
    BY <1>5 DEF LoginLoads, StoreSecret, UseChecks, SetReads, InitStats, OpenFile,
                Kill, Pin
  <2> QED
    BY <1>4, <2>1
<1>6. CASE Show(v)
  <2>1. jobs[v].does \in {"view", "get"} /\ \E code : Ends(v, code)
    BY <1>6 DEF Show
  <2>2. v # w
    BY <2>1
  <2>3. exit'[w] = exit[w]
    BY <1>1, <2>1, <2>2 DEF Ends
  <2> QED
    BY <2>3
<1>7. CASE WriteFile(v)
  <2>1. \/ disk' \in Overlaid(work[v], disk) /\ Ends(v, "ok")
        \/ Ends(v, "error")
    BY <1>7 DEF WriteFile
  <2>2. v = w /\ Ends(v, "ok")
    BY <1>1, <2>1 DEF Ends
  <2>3. pc[w] = "write" /\ secrets' = secrets
    BY <1>7, <2>2 DEF WriteFile
  <2>4. disk = Truncated
    BY <1>1, <2>3 DEF Clean
  <2>5. disk' = work[w]
    BY <1>7, <2>2, <2>4 DEF WriteFile, Overlaid, Ends
  <2> QED
    BY <1>1, <2>3, <2>5
<1> QED
  BY <1>3, <1>5, <1>6, <1>7 DEF WriterStep

\* A step adds nothing to a profile of another name.
LEMMA OthersStay ==
    ASSUME NEW f, NEW n, NEW prof, NEW m, m # n
    PROVE  /\ m \in DOMAIN f => m \in DOMAIN Put(f, n, prof)
           /\ m \in DOMAIN f => Put(f, n, prof)[m] = f[m]
BY DEF Put

LEMMA SetValueStays ==
    ASSUME NEW d, NEW job, Shaped(d.file), JobFits(job), job.does \in {"use", "set"},
           NEW m \in DOMAIN d.file.Profiles \ {job.name}
    PROVE  /\ m \in DOMAIN SetValue(d, job).file.Profiles
           /\ SetValue(d, job).file.Profiles[m] = d.file.Profiles[m]
<1> DEFINE f == d.file
           n == job.name
           v == coerceScalar(job.value)
           b == coerceBool(v)
           prof == IF n \in DOMAIN f.Profiles THEN f.Profiles[n] ELSE Unwritten
           next == SetValue(d, job).file
<1>1. job.key \in {"current_context", "server", "secret", "verify"}
  BY DEF JobFits, IsJob
<1>2. CASE job.key = "current_context"
  <2>1. next = [f EXCEPT !.CurrentContext = v]
    BY <1>2 DEF SetValue, YAML
  <2>2. next.Profiles = f.Profiles
    BY <2>1 DEF Shaped
  <2> QED
    BY <2>2
<1>3. CASE job.key # "current_context"
  <2>1. PICK p : next = [f EXCEPT !.Profiles = Put(@, n, p)]
    <3>1. CASE job.key = "server"
      BY <3>1 DEF SetValue, YAML
    <3>2. CASE job.key = "secret"
      BY <3>2 DEF SetValue, YAML
    <3>3. CASE job.key = "verify"
      BY <3>3 DEF SetValue, YAML
    <3> QED
      BY <1>1, <1>3, <3>1, <3>2, <3>3
  <2>2. next.Profiles = Put(f.Profiles, n, p)
    BY <2>1 DEF Shaped
  <2> QED
    BY <2>2, OthersStay
<1> QED
  BY <1>2, <1>3

\* A command that exits with 0 and that nobody interfered with: a login leaves
\* its server, its credential and its pin to the next command, which can
\* connect with them unless the server or the credential is empty, `context
\* use` its context, and every other profile, with its entry in the keyring,
\* is what it was.
THEOREM CleanEditHolds == StoreSpec => CleanEdit
<1> DEFINE Edit(w) ==
              exit'[w] = "ok" /\ exit[w] = "none" /\ alone[w]
                /\ jobs[w].does \in {"login", "use", "set"} =>
                 LET job == jobs[w]
                     f == disk'.file
                     was == base[w]
                 IN /\ job.does = "login" =>
                          LET s == Resolve(f, NoEnv, NoFlags, secrets'[job.name]) IN
                          /\ ~ResolveFails(f, NoEnv, NoFlags, secrets'[job.name])
                          /\ Valid(s) <=> job.as.Server # None /\ job.typed # None
                          /\ s.Server = job.as.Server /\ s.Secret = job.typed
                          /\ s.TLSFinger = job.as.Finger
                    /\ job.does = "use" /\ coerceScalar(job.value) = job.value =>
                          LET c == was.file.Contexts[job.value] IN
                          ProfileName(f, NoEnv, NoFlags) = c.Profile
                          /\ Remote(f, NoEnv, NoFlags) = c.Remote
                    /\ \A n \in DOMAIN was.file.Profiles \ {job.name} :
                          /\ n \in DOMAIN f.Profiles
                          /\ Seen(f, secrets', n) = Seen(was.file, was.secrets, n)
<1>1. ASSUME SInv, HInv, [StoreNext]_svars, NEW w \in Writers
      PROVE  Edit(w)
  <2> DEFINE job == jobs[w]
             was == base[w]
             f == disk'.file
  <2> SUFFICES ASSUME exit'[w] = "ok", exit[w] = "none", alone[w],
                      job.does \in {"login", "use", "set"}
               PROVE  /\ job.does = "login" =>
                            LET s == Resolve(f, NoEnv, NoFlags, secrets'[job.name]) IN
                            /\ ~ResolveFails(f, NoEnv, NoFlags, secrets'[job.name])
                            /\ Valid(s) <=> job.as.Server # None /\ job.typed # None
                            /\ s.Server = job.as.Server /\ s.Secret = job.typed
                            /\ s.TLSFinger = job.as.Finger
                      /\ job.does = "use" /\ coerceScalar(job.value) = job.value =>
                            LET c == was.file.Contexts[job.value] IN
                            ProfileName(f, NoEnv, NoFlags) = c.Profile
                            /\ Remote(f, NoEnv, NoFlags) = c.Remote
                      /\ \A n \in DOMAIN was.file.Profiles \ {job.name} :
                            /\ n \in DOMAIN f.Profiles
                            /\ Seen(f, secrets', n) = Seen(was.file, was.secrets, n)
    OBVIOUS
  <2>1. /\ f = work[w].file /\ secrets' = secrets /\ JobFits(job)
        /\ job.does = "login" => LoginReady(w)
        /\ job.does \in {"use", "set"} => SetReady(w)
    BY <1>1, OkIsWritten DEF Clean, SInv
  <2>2. CASE job.does = "login"
    <3>1. /\ Shaped(was.file) /\ DOMAIN was.file.Profiles \subseteq Names
          /\ \A n \in Names \ {job.name} : secrets'[n] = was.secrets[n]
      BY <2>1, <2>2 DEF LoginReady
    <3>2. PICK prof : /\ f = Login(was.file, job, prof)
                      /\ \/ /\ prof = [job.as EXCEPT !.SecretRef = "keyring"]
                            /\ secrets'[job.name] = Holds(job.typed)
                         \/ prof = [job.as EXCEPT !.Secret = job.typed]
      BY <2>1, <2>2 DEF LoginReady
    <3>3. LET s == Resolve(f, NoEnv, NoFlags, secrets'[job.name]) IN
          /\ ~ResolveFails(f, NoEnv, NoFlags, secrets'[job.name])
          /\ Valid(s) <=> job.as.Server # None /\ job.typed # None
          /\ s.Server = job.as.Server /\ s.Secret = job.typed
          /\ s.TLSFinger = job.as.Finger
      BY <2>1, <2>2, <3>1, <3>2, LoginCounts
    <3>4. ASSUME NEW n \in DOMAIN was.file.Profiles \ {job.name}
          PROVE  /\ n \in DOMAIN f.Profiles
                 /\ Seen(f, secrets', n) = Seen(was.file, was.secrets, n)
      <4>1. f.Profiles = Put(was.file.Profiles, job.name, prof)
        BY <3>2 DEF Login
      <4>2. n \in DOMAIN f.Profiles /\ f.Profiles[n] = was.file.Profiles[n]
        BY <3>4, <4>1, OthersStay
      <4>3. n # None /\ secrets'[n] = was.secrets[n]
        BY <3>1, <3>4 DEF Shaped
      <4> QED
        BY <4>2, <4>3, SeenAgain
    <3> QED
      BY <2>2, <3>3, <3>4
  <2>3. CASE job.does \in {"use", "set"}
    <3>1. /\ Shaped(was.file) /\ DOMAIN was.file.Profiles \subseteq Names
          /\ secrets' = was.secrets
          /\ job.does = "use" => job.value \in DOMAIN was.file.Contexts
      BY <2>1, <2>3 DEF SetReady, AsRead
    <3>2. PICK d : d.file = was.file /\ f = SetValue(d, job).file
      BY <2>1, <2>3 DEF SetReady
    <3>3. ASSUME job.does = "use", coerceScalar(job.value) = job.value
          PROVE  LET c == was.file.Contexts[job.value] IN
                 ProfileName(f, NoEnv, NoFlags) = c.Profile
                 /\ Remote(f, NoEnv, NoFlags) = c.Remote
      <4>1. job.key = "current_context"
        BY <2>1, <3>3 DEF JobFits, IsJob
      <4>2. f = [was.file EXCEPT !.CurrentContext = job.value]
        BY <3>2, <3>3, <4>1, YAMLSays DEF SetValue
      <4>3. f.CurrentContext = job.value /\ f.Contexts = was.file.Contexts
        BY <3>1, <4>2 DEF Shaped
      <4>4. None \notin DOMAIN f.Contexts /\ f.CurrentContext \in DOMAIN f.Contexts
        BY <3>1, <3>3, <4>3 DEF Shaped
      <4> QED
        BY <4>3, <4>4, CurrentCounts
    <3>4. ASSUME NEW n \in DOMAIN was.file.Profiles \ {job.name}
          PROVE  /\ n \in DOMAIN f.Profiles
                 /\ Seen(f, secrets', n) = Seen(was.file, was.secrets, n)
      <4>1. n \in DOMAIN f.Profiles /\ f.Profiles[n] = was.file.Profiles[n]
        BY <2>1, <2>3, <3>1, <3>2, <3>4, SetValueStays
      <4>2. n # None /\ secrets'[n] = was.secrets[n]
        BY <3>1, <3>4 DEF Shaped
      <4> QED
        BY <4>1, <4>2, SeenAgain
    <3> QED
      BY <2>3, <3>3, <3>4
  <2> HIDE DEF job, f, was
  <2> QED
    BY <2>2, <2>3
<1>2. ASSUME SInv, HInv, [StoreNext]_svars
      PROVE  \A w \in Writers : Edit(w)
  BY <1>1, <1>2
<1> QED
  BY <1>2, HistoryInvariant, PTL DEF StoreSpec, CleanEdit
=============================================================================
