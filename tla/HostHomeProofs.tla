--------------------------- MODULE HostHomeProofs ---------------------------
(***************************************************************************)
(* Proofs about HostHome, under the uploads of GuestAccess, for any worlds,*)
(* artifacts and permissions, and a home of any older release.             *)
(***************************************************************************)
EXTENDS GuestAccess, FiniteSetTheorems, WellFoundedInduction, TLAPS

-----------------------------------------------------------------------------
(* The specification: both modules together, from every home there can be. *)

\* What an older release selected in the baseline: each activation under the
\* name of its subject.
LegacyActs(acts) ==
    /\ IsFiniteSet(DOMAIN acts)
    /\ \A x \in DOMAIN acts :
          /\ acts[x].artifact \in Extensions /\ Subject[acts[x].artifact] = x
          /\ acts[x] = [artifact |-> acts[x].artifact, id |-> x,
                        on |-> acts[x].on, marked |-> acts[x].marked]

HomeInit == AccessInit /\ (Init \/ \E acts : LegacyActs(acts) /\ LegacyInit(acts))
HomeNext == (Next /\ Forgotten) \/ AccessNext
HomeSpec == HomeInit /\ [][HomeNext]_allVars

-----------------------------------------------------------------------------
(* The invariant.                                                          *)

IsAct(act) ==
    act = [artifact |-> act.artifact, id |-> act.id, marked |-> act.marked, on |-> act.on]

IsProfile(p) ==
    p = [acts |-> p.acts, grants |-> p.grants, preferred |-> p.preferred, prefs |-> p.prefs]

\* What PolicyIsGrounded says of one composition.
Grounded(p) ==
    /\ \A g \in p.grants : \E x \in DOMAIN p.acts :
          p.acts[x].id = g[1] /\ g[2] \in Asks[p.acts[x].artifact]
    /\ \A c \in DOMAIN p.preferred : p.preferred[c] \in Instances(p.acts)

\* The instances of a composition are told apart by ids that were given out.
Named(s, p, n) ==
    /\ \A x \in DOMAIN p.acts : IF s = Baseline THEN p.acts[x].id = x ELSE p.acts[x].id \in 1..n
    /\ \A x, y \in DOMAIN p.acts : p.acts[x].id = p.acts[y].id => x = y

Sound(s, p, n) ==
    /\ IsProfile(p) /\ IsFiniteSet(DOMAIN p.acts)
    /\ \A x \in DOMAIN p.acts :
          IsAct(p.acts[x]) /\ p.acts[x].artifact \in Extensions /\ Subject[p.acts[x].artifact] = x
    /\ Named(s, p, n)
    /\ Grounded(p)

IsDir(d) == d = [db |-> d.db, catalog |-> d.catalog, cover |-> d.cover]

FilesInv ==
    /\ minted \in Nat
    /\ DOMAIN profiles \subseteq Scopes /\ DOMAIN dirs \subseteq Worlds
    /\ \A s \in DOMAIN profiles : Sound(s, profiles[s], minted)
    /\ \A w \in DOMAIN dirs : IsDir(dirs[w])

\* An operation that has more to write has what it needs for it.
JobInv ==
    /\ process = Off => job = NoJob
    /\ job.op = "migrate" =>
          /\ job = [op |-> "migrate", base |-> Load(Baseline), left |-> job.left]
          /\ Marked(job.base) # {}
          /\ job.left = IF DefaultWorld \in DOMAIN profiles THEN 1 ELSE 2
    /\ job.op = "policy" =>
          /\ Sound(Baseline, job.base, minted) /\ job.subject \in DOMAIN job.base.acts
          /\ DefaultWorld \in DOMAIN profiles
          /\ job.subject \in DOMAIN profiles[DefaultWorld].acts
          /\ profiles[DefaultWorld].acts[job.subject].artifact = job.base.acts[job.subject].artifact
    /\ job.op = "create" => Sound(DefaultWorld, job.recipe, minted)
    /\ job.op \in {"create", "undo", "delete"} => job.world \in DOMAIN dirs

\* Nothing but the migration runs before the recipe is there.
MarksInv ==
    legacy # {} /\ DefaultWorld \notin DOMAIN profiles =>
        Marked(Load(Baseline)) # {} /\ (process = Off \/ job.op = "migrate")

HomeInv == FilesInv /\ JobInv /\ MarksInv /\ WorldsAreWhole

-----------------------------------------------------------------------------
(* Compositions.                                                           *)

LEMMA ActFields ==
    ASSUME NEW a, NEW i, NEW m, NEW o, NEW act,
           act = [artifact |-> a, id |-> i, marked |-> m, on |-> o]
    PROVE  IsAct(act) /\ act.artifact = a /\ act.id = i /\ act.marked = m /\ act.on = o
  BY DEF IsAct

LEMMA ActEdit ==
    ASSUME NEW act, IsAct(act), NEW v
    PROVE  /\ [act EXCEPT !.id = v] =
                  [artifact |-> act.artifact, id |-> v, marked |-> act.marked, on |-> act.on]
           /\ [act EXCEPT !.marked = v] =
                  [artifact |-> act.artifact, id |-> act.id, marked |-> v, on |-> act.on]
           /\ [act EXCEPT !.on = v] =
                  [artifact |-> act.artifact, id |-> act.id, marked |-> act.marked, on |-> v]
  BY DEF IsAct

LEMMA ActRenewed ==
    ASSUME NEW act, IsAct(act), NEW v, NEW w
    PROVE  [act EXCEPT !.id = v, !.marked = w] =
               [artifact |-> act.artifact, id |-> v, marked |-> w, on |-> act.on]
<1>1. PICK b : b = [act EXCEPT !.id = v] OBVIOUS
<1>2. b = [artifact |-> act.artifact, id |-> v, marked |-> act.marked, on |-> act.on]
  BY <1>1, ActEdit
<1>3. IsAct(b) /\ b.artifact = act.artifact /\ b.id = v /\ b.on = act.on BY <1>2, ActFields
<1>4. [b EXCEPT !.marked = w] = [artifact |-> b.artifact, id |-> b.id, marked |-> w, on |-> b.on]
  BY <1>3, ActEdit
<1> QED BY <1>1, <1>3, <1>4

LEMMA ProfileFields ==
    ASSUME NEW A, NEW G, NEW R, NEW F, NEW p,
           p = [acts |-> A, grants |-> G, preferred |-> R, prefs |-> F]
    PROVE  IsProfile(p) /\ p.acts = A /\ p.grants = G /\ p.preferred = R /\ p.prefs = F
  BY DEF IsProfile

LEMMA ProfileEdit ==
    ASSUME NEW p, IsProfile(p), NEW v
    PROVE  /\ [p EXCEPT !.acts = v] =
                  [acts |-> v, grants |-> p.grants, preferred |-> p.preferred, prefs |-> p.prefs]
           /\ [p EXCEPT !.grants = v] =
                  [acts |-> p.acts, grants |-> v, preferred |-> p.preferred, prefs |-> p.prefs]
           /\ [p EXCEPT !.preferred = v] =
                  [acts |-> p.acts, grants |-> p.grants, preferred |-> v, prefs |-> p.prefs]
           /\ [p EXCEPT !.prefs = v] =
                  [acts |-> p.acts, grants |-> p.grants, preferred |-> p.preferred, prefs |-> v]
  BY DEF IsProfile

LEMMA ProfileSelected ==
    ASSUME NEW p, IsProfile(p), NEW v, NEW w
    PROVE  [p EXCEPT !.acts = v, !.grants = w] =
               [acts |-> v, grants |-> w, preferred |-> p.preferred, prefs |-> p.prefs]
<1>1. PICK b : b = [p EXCEPT !.acts = v] OBVIOUS
<1>2. b = [acts |-> v, grants |-> p.grants, preferred |-> p.preferred, prefs |-> p.prefs]
  BY <1>1, ProfileEdit
<1>3. /\ IsProfile(b)
      /\ b.acts = v /\ b.preferred = p.preferred /\ b.prefs = p.prefs
  BY <1>2, ProfileFields
<1>4. [b EXCEPT !.grants = w] =
          [acts |-> b.acts, grants |-> w, preferred |-> b.preferred, prefs |-> b.prefs]
  BY <1>3, ProfileEdit
<1> QED BY <1>1, <1>3, <1>4

LEMMA ProfilePolicy ==
    ASSUME NEW p, IsProfile(p), NEW v, NEW w, NEW u
    PROVE  [p EXCEPT !.grants = v, !.prefs = w, !.preferred = u] =
               [acts |-> p.acts, grants |-> v, preferred |-> u, prefs |-> w]
<1>1. PICK b : b = [p EXCEPT !.grants = v] OBVIOUS
<1>2. b = [acts |-> p.acts, grants |-> v, preferred |-> p.preferred, prefs |-> p.prefs]
  BY <1>1, ProfileEdit
<1>3. IsProfile(b) /\ b.acts = p.acts /\ b.grants = v /\ b.preferred = p.preferred
  BY <1>2, ProfileFields
<1>4. PICK c : c = [b EXCEPT !.prefs = w] OBVIOUS
<1>5. c = [acts |-> p.acts, grants |-> v, preferred |-> p.preferred, prefs |-> w]
  BY <1>3, <1>4, ProfileEdit
<1>6. IsProfile(c) /\ c.acts = p.acts /\ c.grants = v /\ c.prefs = w BY <1>5, ProfileFields
<1>7. [c EXCEPT !.preferred = u] = [acts |-> p.acts, grants |-> v, preferred |-> u, prefs |-> w]
  BY <1>6, ProfileEdit
<1>8. [p EXCEPT !.grants = v, !.prefs = w, !.preferred = u] = [c EXCEPT !.preferred = u]
  BY <1>1, <1>4
<1> QED BY <1>7, <1>8

LEMMA WithoutFields ==
    ASSUME NEW f, NEW S
    PROVE  /\ DOMAIN Without(f, S) = DOMAIN f \ S
           /\ \A z \in DOMAIN f \ S : Without(f, S)[z] = f[z]
  BY DEF Without

\* The composition of a scope with no file is empty, and sound.
LEMMA EmptySound == \A s : \A n \in Nat : Sound(s, Empty, n)
<1>1. /\ IsProfile(Empty) /\ Empty.acts = <<>> /\ Empty.grants = {} /\ Empty.preferred = <<>>
  BY DEF Empty, IsProfile
<1>2. DOMAIN <<>> = {} OBVIOUS
<1> QED BY <1>1, <1>2, FS_EmptySet DEF Sound, Named, Grounded

LEMMA LoadSound ==
    ASSUME FilesInv
    PROVE  \A s : Sound(s, Load(s), minted)
  BY EmptySound DEF Load, FilesInv

\* An id that was given out stays so.
LEMMA SoundLater ==
    ASSUME NEW s, NEW p, NEW m \in Nat, NEW n \in Nat, m <= n, Sound(s, p, m)
    PROVE  Sound(s, p, n)
<1>1. Named(s, p, m) BY DEF Sound
<1>2. Named(s, p, n) BY <1>1 DEF Named
<1> QED BY <1>2 DEF Sound

\* Preferences take no part in it.
LEMMA PreferencesSound ==
    ASSUME NEW s, NEW p, NEW n, Sound(s, p, n), NEW v
    PROVE  Sound(s, [p EXCEPT !.prefs = v], n)
<1> DEFINE q == [p EXCEPT !.prefs = v]
<1>1. q = [acts |-> p.acts, grants |-> p.grants, preferred |-> p.preferred, prefs |-> v]
  BY ProfileEdit DEF Sound
<1> HIDE DEF q
<1>2. IsProfile(q) /\ q.acts = p.acts /\ q.grants = p.grants /\ q.preferred = p.preferred
  BY <1>1, ProfileFields
<1> QED BY <1>2 DEF Sound, Named, Grounded, q

LEMMA EnabledSound ==
    ASSUME NEW s, NEW p, NEW n, Sound(s, p, n), NEW x \in DOMAIN p.acts, NEW on
    PROVE  Sound(s, [p EXCEPT !.acts[x].on = on], n)
<1> DEFINE A == [p.acts EXCEPT ![x] = [p.acts[x] EXCEPT !.on = on]]
           q == [p EXCEPT !.acts = A]
<1>1. q = [acts |-> A, grants |-> p.grants, preferred |-> p.preferred, prefs |-> p.prefs]
  <2> HIDE DEF A
  <2> QED BY ProfileEdit DEF Sound
<1>2. [p EXCEPT !.acts[x].on = on] = q OBVIOUS
<1>3. /\ DOMAIN A = DOMAIN p.acts
      /\ \A y \in DOMAIN p.acts : /\ IsAct(A[y])
                                  /\ A[y].artifact = p.acts[y].artifact /\ A[y].id = p.acts[y].id
  <2>1. IsAct(p.acts[x]) BY DEF Sound
  <2>2. \A y \in DOMAIN p.acts : y # x => A[y] = p.acts[y] OBVIOUS
  <2>3. A[x] = [artifact |-> p.acts[x].artifact, id |-> p.acts[x].id,
                marked |-> p.acts[x].marked, on |-> on]
    BY <2>1, ActEdit
  <2>4. IsAct(A[x]) /\ A[x].artifact = p.acts[x].artifact /\ A[x].id = p.acts[x].id
    BY <2>3, ActFields
  <2>5. \A y \in DOMAIN p.acts : IsAct(p.acts[y]) BY DEF Sound
  <2> HIDE DEF A
  <2>6. DOMAIN A = DOMAIN p.acts BY DEF A
  <2> QED BY <2>2, <2>4, <2>5, <2>6
<1> HIDE DEF A, q
<1>4. IsProfile(q) /\ q.acts = A /\ q.grants = p.grants /\ q.preferred = p.preferred
  BY <1>1, ProfileFields
<1>5. Sound(s, q, n) BY <1>3, <1>4 DEF Sound, Named, Grounded, Instances
<1> QED BY <1>2, <1>5

\* The marks are no part of it either.
LEMMA UnmarkedSound ==
    ASSUME NEW s, NEW p, NEW n, Sound(s, p, n)
    PROVE  Sound(s, Unmarked(p), n)
<1> DEFINE A == [x \in DOMAIN p.acts |-> [p.acts[x] EXCEPT !.marked = FALSE]]
           q == [p EXCEPT !.acts = A]
<1>1. q = [acts |-> A, grants |-> p.grants, preferred |-> p.preferred, prefs |-> p.prefs]
  <2> HIDE DEF A
  <2> QED BY ProfileEdit DEF Sound
<1>2. Unmarked(p) = q BY DEF Unmarked, Sound, IsProfile
<1>3. /\ DOMAIN A = DOMAIN p.acts
      /\ \A y \in DOMAIN p.acts : /\ IsAct(A[y])
                                  /\ A[y].artifact = p.acts[y].artifact /\ A[y].id = p.acts[y].id
  <2>1. SUFFICES ASSUME NEW y \in DOMAIN p.acts
                 PROVE  /\ IsAct(A[y])
                        /\ A[y].artifact = p.acts[y].artifact /\ A[y].id = p.acts[y].id
    OBVIOUS
  <2>2. IsAct(p.acts[y]) BY DEF Sound
  <2>3. A[y] = [artifact |-> p.acts[y].artifact, id |-> p.acts[y].id,
                marked |-> FALSE, on |-> p.acts[y].on]
    BY <2>2, ActEdit
  <2> HIDE DEF A
  <2> QED BY <2>3, ActFields
<1> HIDE DEF A, q
<1>4. IsProfile(q) /\ q.acts = A /\ q.grants = p.grants /\ q.preferred = p.preferred
  BY <1>1, ProfileFields
<1> QED BY <1>2, <1>3, <1>4 DEF Sound, Named, Grounded, Instances

\* Selecting an artifact: the instance keeps its id, or gets a new one, and keeps
\* the grants the artifact requests.
LEMMA SelectedSound ==
    ASSUME minted \in Nat, NEW s, NEW p, Sound(s, p, minted), NEW a \in Extensions, NEW on,
           NEW n \in Nat, minted <= n,
           SelectedId(s, p, Subject[a]) = minted + 1 => minted + 1 <= n
    PROVE  LET q == Selected(s, p, a, on) IN
           /\ Sound(s, q, n)
           /\ Subject[a] \in DOMAIN q.acts /\ q.acts[Subject[a]].artifact = a
           /\ DOMAIN q.acts = DOMAIN p.acts \cup {Subject[a]}
<1> DEFINE x == Subject[a]
           id == SelectedId(s, p, x)
           old == IF x \in DOMAIN p.acts THEN p.acts[x] ELSE [on |-> TRUE, marked |-> FALSE]
           act == [artifact |-> a, id |-> id, marked |-> old.marked,
                   on |-> IF on = <<>> THEN old.on ELSE on[1]]
           A == Put(p.acts, x, act)
           G == {g \in p.grants : g[1] = id => g[2] \in Asks[a]}
           q == [p EXCEPT !.acts = A, !.grants = G]
<1>1. Selected(s, p, a, on) = q BY DEF Selected
<1>2. IsAct(act) /\ act.artifact = a /\ act.id = id
  <2>1. PICK m : m = old.marked OBVIOUS
  <2>2. PICK o : o = IF on = <<>> THEN old.on ELSE on[1] OBVIOUS
  <2>3. act = [artifact |-> a, id |-> id, marked |-> m, on |-> o] BY <2>1, <2>2
  <2> HIDE DEF act, id
  <2> QED BY <2>3, ActFields
<1> HIDE DEF act
<1>3. /\ DOMAIN A = DOMAIN p.acts \cup {x} /\ A[x] = act
      /\ \A y \in DOMAIN p.acts : y # x => A[y] = p.acts[y]
  <2> HIDE DEF x, id, old, G, q
  <2> QED BY DEF Put
<1>4. /\ IsProfile(q) /\ q.acts = A /\ q.grants = G /\ q.preferred = p.preferred
  <2>1. IsProfile(p) BY DEF Sound
  <2> HIDE DEF A, G
  <2>2. q = [acts |-> A, grants |-> G, preferred |-> p.preferred, prefs |-> p.prefs]
    BY <2>1, ProfileSelected
  <2> HIDE DEF q
  <2> QED BY <2>2, ProfileFields
<1> HIDE DEF A, q
<1>5. IsFiniteSet(DOMAIN A) BY <1>3, FS_AddElement DEF Sound
<1>6. Named(s, p, minted) BY DEF Sound
<1>7. x \in DOMAIN p.acts => id = p.acts[x].id BY <1>6 DEF Named, SelectedId
<1>8. x \notin DOMAIN p.acts /\ s # Baseline => id = minted + 1 BY DEF SelectedId
<1>9. s = Baseline => id = x BY DEF SelectedId
<1> HIDE DEF id
<1>10. \A y \in DOMAIN A : IF s = Baseline THEN A[y].id = y ELSE A[y].id \in 1..n
  <2>1. SUFFICES ASSUME NEW y \in DOMAIN A
                 PROVE  IF s = Baseline THEN A[y].id = y ELSE A[y].id \in 1..n
    OBVIOUS
  <2>2. CASE y # x BY <1>3, <1>6, <2>2 DEF Named
  <2>3. CASE y = x
    <3>1. A[y].id = id BY <1>2, <1>3, <2>3
    <3>2. CASE s = Baseline BY <1>9, <2>3, <3>1, <3>2
    <3>3. CASE s # Baseline /\ x \in DOMAIN p.acts BY <1>6, <1>7, <3>1, <3>3 DEF Named
    <3>4. CASE s # Baseline /\ x \notin DOMAIN p.acts BY <1>8, <3>1, <3>4 DEF id
    <3> QED BY <3>2, <3>3, <3>4
  <2> QED BY <2>2, <2>3
<1>11. \A y, z \in DOMAIN A : A[y].id = A[z].id => y = z
  <2>1. \A y \in DOMAIN p.acts : y # x => p.acts[y].id # id
    <3>1. SUFFICES ASSUME NEW y \in DOMAIN p.acts, y # x PROVE p.acts[y].id # id
      OBVIOUS
    <3>2. CASE s = Baseline BY <1>6, <1>9, <3>1, <3>2 DEF Named
    <3>3. CASE x \in DOMAIN p.acts BY <1>6, <1>7, <3>1, <3>3 DEF Named
    <3>4. CASE s # Baseline /\ x \notin DOMAIN p.acts BY <1>6, <1>8, <3>1, <3>4 DEF Named
    <3> QED BY <3>2, <3>3, <3>4
  <2> QED BY <1>2, <1>3, <1>6, <2>1 DEF Named
<1>12. Grounded(p) BY DEF Sound
<1>13. \A g \in G : \E y \in DOMAIN A : A[y].id = g[1] /\ g[2] \in Asks[A[y].artifact]
  <2>1. SUFFICES ASSUME NEW g \in G
                 PROVE  \E y \in DOMAIN A : A[y].id = g[1] /\ g[2] \in Asks[A[y].artifact]
    OBVIOUS
  <2>2. PICK y \in DOMAIN p.acts : p.acts[y].id = g[1] /\ g[2] \in Asks[p.acts[y].artifact]
    BY <1>12 DEF Grounded
  <2>3. CASE y = x
    <3>1. A[x].id = g[1] BY <1>2, <1>3, <1>7, <2>2, <2>3
    <3>2. g[2] \in Asks[A[x].artifact] BY <1>2, <1>3, <1>7, <2>2, <2>3
    <3> QED BY <1>3, <3>1, <3>2
  <2>4. CASE y # x BY <1>3, <2>2, <2>4
  <2> QED BY <2>3, <2>4
<1>14. \A c \in DOMAIN p.preferred : p.preferred[c] \in Instances(A)
  <2>1. SUFFICES ASSUME NEW c \in DOMAIN p.preferred PROVE p.preferred[c] \in Instances(A)
    OBVIOUS
  <2>2. PICK y \in DOMAIN p.acts : p.acts[y].id = p.preferred[c] BY <1>12 DEF Grounded, Instances
  <2>3. \E z \in DOMAIN A : A[z].id = p.preferred[c] BY <1>2, <1>3, <1>7, <2>2
  <2> QED BY <2>3 DEF Instances
<1>15. \A y \in DOMAIN A : IsAct(A[y]) /\ A[y].artifact \in Extensions /\ Subject[A[y].artifact] = y
  <2>1. \A y \in DOMAIN p.acts :
          IsAct(p.acts[y]) /\ p.acts[y].artifact \in Extensions /\ Subject[p.acts[y].artifact] = y
    BY DEF Sound
  <2> QED BY <1>2, <1>3, <2>1
<1>16. Sound(s, q, n) BY <1>4, <1>5, <1>10, <1>11, <1>13, <1>14, <1>15 DEF Sound, Named, Grounded
<1> QED BY <1>1, <1>2, <1>3, <1>4, <1>16

\* With an activation goes all that refers to its instance.
LEMMA RemovedSound ==
    ASSUME NEW s, NEW p, NEW n, Sound(s, p, n), NEW x \in DOMAIN p.acts
    PROVE  Sound(s, Removed(p, x), n)
<1> DEFINE A == Without(p.acts, {x})
           gone == {p.acts[x].id}
           G == {g \in p.grants : g[1] \notin gone}
           R == Without(p.preferred, {c \in DOMAIN p.preferred : p.preferred[c] \in gone})
           F == {r \in p.prefs : r[1] \notin gone}
           q == [acts |-> A, grants |-> G, preferred |-> R, prefs |-> F]
<1>1. Removed(p, x) = q BY DEF Removed
<1>2. /\ DOMAIN A = DOMAIN p.acts \ {x} /\ \A y \in DOMAIN A : A[y] = p.acts[y]
      /\ \A c \in DOMAIN R : c \in DOMAIN p.preferred /\ R[c] = p.preferred[c] /\ R[c] # p.acts[x].id
  <2>1. DOMAIN A = DOMAIN p.acts \ {x} /\ \A y \in DOMAIN p.acts \ {x} : A[y] = p.acts[y]
    BY WithoutFields, Zenon
  <2> DEFINE C == {c \in DOMAIN p.preferred : p.preferred[c] \in gone}
  <2>2. DOMAIN R = DOMAIN p.preferred \ C
        /\ \A c \in DOMAIN p.preferred \ C : R[c] = p.preferred[c]
    BY WithoutFields, Zenon
  <2>3. \A c \in DOMAIN p.preferred : c \in C <=> p.preferred[c] = p.acts[x].id BY Zenon
  <2> HIDE DEF A, R, C, G, F, q
  <2> QED BY <2>1, <2>2, <2>3
<1>3. \A g \in G : g \in p.grants /\ g[1] # p.acts[x].id
  <2>1. \A g \in G : g \in p.grants /\ g[1] \notin gone
    <3> HIDE DEF A, R, F, q, gone
    <3> QED OBVIOUS
  <2> HIDE DEF G
  <2> QED BY <2>1

<1>4. IsProfile(q) /\ q.acts = A /\ q.grants = G /\ q.preferred = R
  <2> HIDE DEF A, G, R, F
  <2> QED BY ProfileFields
<1> HIDE DEF A, G, R, F, q
<1>5. IsFiniteSet(DOMAIN A)
  <2>1. IsFiniteSet(DOMAIN p.acts) BY DEF Sound
  <2> QED BY <1>2, <2>1, FS_RemoveElement
<1>6. Grounded(p) /\ Named(s, p, n) BY DEF Sound
<1>7. \A g \in G : \E y \in DOMAIN A : A[y].id = g[1] /\ g[2] \in Asks[A[y].artifact]
  BY <1>2, <1>3, <1>6 DEF Grounded
<1>8. \A c \in DOMAIN R : R[c] \in Instances(A)
  <2>1. SUFFICES ASSUME NEW c \in DOMAIN R PROVE R[c] \in Instances(A)
    OBVIOUS
  <2>2. PICK y \in DOMAIN p.acts : p.acts[y].id = R[c] BY <1>2, <1>6 DEF Grounded, Instances
  <2>3. y \in DOMAIN A /\ A[y].id = R[c] BY <1>2, <2>2
  <2> QED BY <2>3 DEF Instances
<1>9. Named(s, q, n) BY <1>2, <1>4, <1>6 DEF Named
<1> QED BY <1>1, <1>2, <1>4, <1>5, <1>7, <1>8, <1>9 DEF Sound, Grounded

\* Fewer grants, or one more that an installed artifact requests.
LEMMA GrantsSound ==
    ASSUME NEW s, NEW p, NEW n, Sound(s, p, n), NEW G,
           \A g \in G : \/ g \in p.grants
                        \/ \E x \in DOMAIN p.acts :
                              p.acts[x].id = g[1] /\ g[2] \in Asks[p.acts[x].artifact]
    PROVE  Sound(s, [p EXCEPT !.grants = G], n)
<1> DEFINE q == [p EXCEPT !.grants = G]
<1>1. q = [acts |-> p.acts, grants |-> G, preferred |-> p.preferred, prefs |-> p.prefs]
  BY ProfileEdit DEF Sound
<1> HIDE DEF q
<1>2. IsProfile(q) /\ q.acts = p.acts /\ q.grants = G /\ q.preferred = p.preferred
  BY <1>1, ProfileFields
<1>3. Sound(s, q, n) BY <1>2 DEF Sound, Named, Grounded
<1> QED BY <1>3 DEF q

LEMMA PreferredSound ==
    ASSUME NEW s, NEW p, NEW n, Sound(s, p, n), NEW R,
           \A c \in DOMAIN R : R[c] \in Instances(p.acts)
    PROVE  Sound(s, [p EXCEPT !.preferred = R], n)
<1> DEFINE q == [p EXCEPT !.preferred = R]
<1>1. q = [acts |-> p.acts, grants |-> p.grants, preferred |-> R, prefs |-> p.prefs]
  BY ProfileEdit DEF Sound
<1> HIDE DEF q
<1>2. IsProfile(q) /\ q.acts = p.acts /\ q.grants = p.grants /\ q.preferred = R
  BY <1>1, ProfileFields
<1>3. Sound(s, q, n) BY <1>2 DEF Sound, Named, Grounded
<1> QED BY <1>3 DEF q

\* The policy of the baseline's instance fits the instance of the recipe: both are
\* of the same artifact.
LEMMA WithPolicySound ==
    ASSUME NEW s, NEW p, NEW n, Sound(s, p, n), NEW base, NEW m, Sound(Baseline, base, m),
           NEW x, x \in DOMAIN p.acts, x \in DOMAIN base.acts,
           p.acts[x].artifact = base.acts[x].artifact
    PROVE  Sound(s, WithPolicyOf(p, base, x), n)
<1> DEFINE from == base.acts[x].id
           to == p.acts[x].id
           mine == {c \in DOMAIN base.preferred : base.preferred[c] = from}
           G == p.grants \cup {<<to, g[2]>> : g \in {h \in base.grants : h[1] = from}}
           F == p.prefs \cup {<<to, r[2]>> : r \in {h \in base.prefs : h[1] = from}}
           R == [c \in DOMAIN p.preferred \cup mine |-> IF c \in mine THEN to ELSE p.preferred[c]]
           q == [acts |-> p.acts, grants |-> G, preferred |-> R, prefs |-> F]
<1>1. WithPolicyOf(p, base, x) = q
  <2>1. IsProfile(p) BY DEF Sound
  <2>2. WithPolicyOf(p, base, x) = [p EXCEPT !.grants = G, !.prefs = F, !.preferred = R]
    BY <2>1 DEF WithPolicyOf, IsProfile
  <2> HIDE DEF G, F, R
  <2> QED BY <2>1, <2>2, ProfilePolicy
<1>2. IsProfile(q) /\ q.acts = p.acts /\ q.grants = G /\ q.preferred = R
  <2> HIDE DEF G, F, R
  <2> QED BY ProfileFields
<1>3. Grounded(p) /\ Grounded(base) /\ Named(Baseline, base, m) BY DEF Sound
<1>4. \A g \in G : \E y \in DOMAIN p.acts : p.acts[y].id = g[1] /\ g[2] \in Asks[p.acts[y].artifact]
  <2>1. SUFFICES ASSUME NEW g \in G
                 PROVE  \E y \in DOMAIN p.acts :
                           p.acts[y].id = g[1] /\ g[2] \in Asks[p.acts[y].artifact]
    OBVIOUS
  <2>2. CASE g \in p.grants BY <1>3, <2>2 DEF Grounded
  <2>3. CASE g \notin p.grants
    <3>1. PICK h \in base.grants : h[1] = from /\ g = <<to, h[2]>> BY <2>3
    <3>2. PICK y \in DOMAIN base.acts : base.acts[y].id = h[1] /\ h[2] \in Asks[base.acts[y].artifact]
      BY <1>3 DEF Grounded
    <3>3. y = x BY <1>3, <3>1, <3>2 DEF Named
    <3>4. g[1] = to /\ g[2] \in Asks[p.acts[x].artifact] BY <3>1, <3>2, <3>3
    <3> QED BY <3>4
  <2> QED BY <2>2, <2>3
<1>5. \A c \in DOMAIN R : R[c] \in Instances(p.acts)
  <2>1. to \in Instances(p.acts) BY DEF Instances
  <2>2. \A c \in DOMAIN p.preferred : p.preferred[c] \in Instances(p.acts) BY <1>3 DEF Grounded
  <2> QED BY <2>1, <2>2
<1> HIDE DEF q, G, R
<1>6. Sound(s, q, n) BY <1>2, <1>4, <1>5 DEF Sound, Named, Grounded
<1> QED BY <1>1, <1>6

\* SetToSeq numbers the elements of a set.
LEMMA SetNumbered ==
    ASSUME NEW S, IsFiniteSet(S)
    PROVE  LET q == SetToSeq(S) IN
           /\ Len(q) = Cardinality(S) /\ Cardinality(S) \in Nat
           /\ \A x \in S : \E i \in 1..Len(q) : q[i] = x
<1> DEFINE n == Cardinality(S)
           q == SetToSeq(S)
<1>1. n \in Nat /\ ExistsBijection(1..n, S) BY FS_CardinalityType
<1>2. \E f \in [1..n -> S] : IsInjective(f)
  BY <1>1 DEF ExistsBijection, Bijection, Injection
<1>3. q \in [1..n -> S] /\ IsInjective(q) BY <1>2 DEF SetToSeq
<1>4. q \in Injection(1..n, S) BY <1>3 DEF Injection
<1>5. IsFiniteSet(1..n) /\ Cardinality(1..n) = n BY <1>1, FS_Interval
<1>6. q \in Surjection(1..n, S)
  <2> HIDE DEF q
  <2> QED BY <1>4, <1>5, FS_Injection
<1>7. \A x \in S : \E i \in 1..n : q[i] = x BY <1>6 DEF Surjection
<1>8. Len(q) = n BY <1>1, <1>3
<1> QED BY <1>1, <1>7, <1>8

\* A world's own composition: the instances get new ids, and the policy follows
\* them.
LEMMA MaterializedSound ==
    ASSUME minted \in Nat, NEW t, NEW p, NEW k, Sound(t, p, k), NEW S \in SUBSET DOMAIN p.acts,
           NEW s, s # Baseline
    PROVE  /\ Cardinality(S) \in Nat
           /\ Sound(s, Materialized(p, S), minted + Cardinality(S))
<1> DEFINE order == SetToSeq(S)
           new == [x \in S |-> minted + (CHOOSE i \in 1..Len(order) : order[i] = x)]
           subject(id) == CHOOSE x \in S : p.acts[x].id = id
           ids0 == {p.acts[x].id : x \in S}
           G0 == {g \in p.grants : g[1] \in ids0}
           F0 == {r \in p.prefs : r[1] \in ids0}
           R0 == [c \in {d \in DOMAIN p.preferred : p.preferred[d] \in ids0} |-> p.preferred[c]]
           q == Keeping(p, ids0)
           A == [x \in S |-> [p.acts[x] EXCEPT !.id = new[x], !.marked = FALSE]]
           G == {<<new[subject(g[1])], g[2]>> : g \in q.grants}
           R == [c \in DOMAIN q.preferred |-> new[subject(q.preferred[c])]]
           F == {<<new[subject(r[1])], r[2]>> : r \in q.prefs}
           m == [acts |-> A, grants |-> G, preferred |-> R, prefs |-> F]
           n == minted + Cardinality(S)
<1>1. Materialized(p, S) = m BY DEF Materialized
<1>2. IsFiniteSet(S) BY FS_Subset DEF Sound
<1>3. Cardinality(S) \in Nat BY <1>2, FS_CardinalityType
<1>4. IsProfile(p) /\ Grounded(p) /\ Named(t, p, k) BY DEF Sound
<1>5. q.grants = G0 /\ q.preferred = R0
  <2>1. q = [p EXCEPT !.grants = G0, !.prefs = F0, !.preferred = R0]
    BY <1>4 DEF Keeping, IsProfile
  <2> HIDE DEF G0, F0, R0, q
  <2>2. q = [acts |-> p.acts, grants |-> G0, preferred |-> R0, prefs |-> F0]
    BY <1>4, <2>1, ProfilePolicy
  <2> QED BY <2>2, ProfileFields
<1>6. /\ \A x \in S : new[x] \in Nat /\ new[x] \in minted + 1 .. n
      /\ \A x, y \in S : new[x] = new[y] => x = y
  <2>1. Len(order) = Cardinality(S) /\ \A x \in S : \E i \in 1..Len(order) : order[i] = x
    BY <1>2, SetNumbered
  <2> DEFINE place(x) == CHOOSE i \in 1..Len(order) : order[i] = x
  <2>2. \A x \in S : place(x) \in 1..Len(order) /\ order[place(x)] = x BY <2>1
  <2>3. \A x \in S : new[x] = minted + place(x) OBVIOUS
  <2> HIDE DEF order, new, place
  <2>4. \A x \in S : place(x) \in Int /\ 1 <= place(x) /\ place(x) <= Cardinality(S)
    BY <1>3, <2>1, <2>2
  <2>5. \A x \in S : new[x] \in Nat /\ new[x] \in minted + 1 .. n BY <1>3, <2>3, <2>4
  <2>6. \A x, y \in S : new[x] = new[y] => place(x) = place(y) BY <2>3, <2>4
  <2> QED BY <2>2, <2>5, <2>6
<1> HIDE DEF order, new, q
<1>7. /\ DOMAIN A = S
      /\ \A x \in S : IsAct(A[x]) /\ A[x].artifact = p.acts[x].artifact /\ A[x].id = new[x]
  <2>1. DOMAIN A = S OBVIOUS
  <2>2. SUFFICES ASSUME NEW x \in S
                 PROVE  IsAct(A[x]) /\ A[x].artifact = p.acts[x].artifact /\ A[x].id = new[x]
    BY <2>1
  <2>3. IsAct(p.acts[x]) BY DEF Sound
  <2>4. A[x] = [artifact |-> p.acts[x].artifact, id |-> new[x], marked |-> FALSE, on |-> p.acts[x].on]
    BY <2>3, ActRenewed
  <2> HIDE DEF A
  <2> QED BY <2>4, ActFields
<1>8. IsProfile(m) /\ m.acts = A /\ m.grants = G /\ m.preferred = R
  <2> HIDE DEF A, G, R, F
  <2> QED BY ProfileFields
<1> HIDE DEF A, m
<1>9. \A x \in S : subject(p.acts[x].id) = x
  <2>1. \A x, y \in S : p.acts[x].id = p.acts[y].id => x = y BY <1>4 DEF Named
  <2> QED BY <2>1
<1> HIDE DEF subject
<1>10. \A g \in G : \E x \in S : A[x].id = g[1] /\ g[2] \in Asks[A[x].artifact]
  <2>1. SUFFICES ASSUME NEW g \in G PROVE \E x \in S : A[x].id = g[1] /\ g[2] \in Asks[A[x].artifact]
    OBVIOUS
  <2>2. PICK h \in G0 : g = <<new[subject(h[1])], h[2]>> BY <1>5
  <2>3. PICK x \in S : p.acts[x].id = h[1] OBVIOUS
  <2>4. PICK y \in DOMAIN p.acts : p.acts[y].id = h[1] /\ h[2] \in Asks[p.acts[y].artifact]
    BY <1>4 DEF Grounded
  <2>5. y = x BY <1>4, <2>3, <2>4 DEF Named
  <2>6. g[1] = new[x] /\ g[2] = h[2] BY <1>9, <2>2, <2>3
  <2> QED BY <1>7, <2>4, <2>5, <2>6
<1>11. \A c \in DOMAIN R : R[c] \in Instances(A)
  <2>1. SUFFICES ASSUME NEW c \in DOMAIN R PROVE R[c] \in Instances(A)
    OBVIOUS
  <2>2. c \in DOMAIN R0 /\ R[c] = new[subject(R0[c])] BY <1>5
  <2>3. PICK x \in S : p.acts[x].id = R0[c] BY <2>2
  <2>4. subject(R0[c]) = x BY <1>9, <2>3
  <2>5. A[x].id = new[x] BY <1>7
  <2>6. R[c] = A[x].id BY <2>2, <2>4, <2>5
  <2> QED BY <1>7, <2>6 DEF Instances
<1> HIDE DEF G, R
<1>12. Named(s, m, n)
  <2>1. \A x \in S : new[x] \in 1..n BY <1>3, <1>6
  <2> QED BY <1>6, <1>7, <1>8, <2>1 DEF Named
<1>13. \A x \in S : A[x].artifact \in Extensions /\ Subject[A[x].artifact] = x
  BY <1>7 DEF Sound
<1>14. Sound(s, m, n)
  BY <1>2, <1>7, <1>8, <1>10, <1>11, <1>12, <1>13 DEF Sound, Grounded
<1> QED BY <1>1, <1>3, <1>14

-----------------------------------------------------------------------------
(* What a save does.                                                       *)

LEMMA JobNames == NoJob.op = "none" /\ Cut' = IF job'.op \in {"create", "undo", "delete"} THEN {job'.world} ELSE {}
  BY DEF NoJob, Cut

LEMMA RunNames == Off.run = "off" /\ Command.run = "command" /\ \A live : Session(live).run = "session"
  BY DEF Off, Command, Session

\* Nothing runs in a process that is not there.
LEMMA JobRuns ==
    ASSUME JobInv, process = Off
    PROVE  job = NoJob /\ job.op = "none"
  BY JobNames DEF JobInv

LEMMA NothingLeft ==
    ASSUME job' = NoJob
    PROVE  JobInv' /\ Cut' = {}
  BY JobNames DEF JobInv

\* Opening a database completes its migration, and no more.
LEMMA OpenedDirs ==
    ASSUME FilesInv, NEW s
    PROVE  /\ DOMAIN Opened(s) = DOMAIN dirs
           /\ \A w \in DOMAIN dirs :
                 /\ IsDir(Opened(s)[w])
                 /\ Opened(s)[w].catalog = dirs[w].catalog
                 /\ dirs[w].db = "v3" => Opened(s)[w].db = "v3"
<1>1. \A w \in DOMAIN dirs : IsDir(dirs[w]) BY DEF FilesInv
<1>2. CASE s \notin DOMAIN dirs BY <1>1, <1>2 DEF Opened
<1>3. CASE s \in DOMAIN dirs
  <2>1. Opened(s) = [dirs EXCEPT ![s].db = "v3"] BY <1>3 DEF Opened
  <2>2. DOMAIN Opened(s) = DOMAIN dirs /\ \A w \in DOMAIN dirs : w # s => Opened(s)[w] = dirs[w]
    BY <2>1
  <2>3. Opened(s)[s] = [dirs[s] EXCEPT !.db = "v3"] BY <1>3, <2>1
  <2>4. Opened(s)[s] = [db |-> "v3", catalog |-> dirs[s].catalog, cover |-> dirs[s].cover]
    BY <1>1, <1>3, <2>3 DEF IsDir
  <2>5. IsDir(Opened(s)[s]) /\ Opened(s)[s].catalog = dirs[s].catalog /\ Opened(s)[s].db = "v3"
    BY <2>4 DEF IsDir
  <2> QED BY <1>1, <2>2, <2>5
<1> QED BY <1>2, <1>3

LEMMA ReachableScope ==
    ASSUME FilesInv, NEW s, Reachable(s)
    PROVE  s \in Scopes /\ (s \in Worlds => s \in DOMAIN dirs)
  BY HomeAssumption DEF FilesInv, Reachable, Openable, Scopes

LEMMA SaveFiles ==
    ASSUME FilesInv, NEW s, NEW p, s \in Scopes, Save(s, p),
           minted' \in Nat, minted <= minted', Sound(s, p, minted')
    PROVE  /\ FilesInv'
           /\ DOMAIN profiles' = DOMAIN profiles \cup {s} /\ profiles'[s] = p
           /\ \A t \in DOMAIN profiles : t # s => profiles'[t] = profiles[t]
           /\ DOMAIN dirs' = DOMAIN dirs
           /\ \A w \in DOMAIN dirs : /\ dirs'[w].catalog = dirs[w].catalog
                                     /\ dirs[w].db = "v3" => dirs'[w].db = "v3"
<1>1. profiles' = Put(profiles, s, p) /\ dirs' = Opened(s) BY DEF Save
<1>2. /\ DOMAIN profiles' = DOMAIN profiles \cup {s} /\ profiles'[s] = p
      /\ \A t \in DOMAIN profiles : t # s => profiles'[t] = profiles[t]
  BY <1>1 DEF Put
<1>3. /\ DOMAIN dirs' = DOMAIN dirs
      /\ \A w \in DOMAIN dirs : /\ IsDir(dirs'[w]) /\ dirs'[w].catalog = dirs[w].catalog
                                /\ dirs[w].db = "v3" => dirs'[w].db = "v3"
  BY <1>1, OpenedDirs
<1>4. \A t \in DOMAIN profiles : Sound(t, profiles[t], minted')
  BY SoundLater DEF FilesInv
<1>5. \A t \in DOMAIN profiles' : Sound(t, profiles'[t], minted') BY <1>2, <1>4
<1>6. DOMAIN profiles' \subseteq Scopes /\ DOMAIN dirs' \subseteq Worlds BY <1>2, <1>3 DEF FilesInv
<1>7. \A w \in DOMAIN dirs' : IsDir(dirs'[w]) BY <1>3
<1> QED BY <1>2, <1>3, <1>5, <1>6, <1>7 DEF FilesInv

\* The recipe, once it is there, stays.
LEMMA MarksStay ==
    ASSUME MarksInv, process # Off, job.op # "migrate", legacy' = legacy,
           DefaultWorld \in DOMAIN profiles => DefaultWorld \in DOMAIN profiles'
    PROVE  MarksInv'
  BY DEF MarksInv

\* The world is whole, and the file of a composition appears where a database is.
LEMMA SaveWhole ==
    ASSUME FilesInv, WorldsAreWhole, NEW s, NEW p, Reachable(s), Save(s, p),
           minted' \in Nat, minted <= minted', Sound(s, p, minted'),
           Cut = {}, Cut' = {}, broken' = broken
    PROVE  WorldsAreWhole'
<1>1. s \in Scopes /\ (s \in Worlds => s \in DOMAIN dirs) BY ReachableScope
<1>2. /\ DOMAIN profiles' = DOMAIN profiles \cup {s}
      /\ DOMAIN dirs' = DOMAIN dirs
      /\ \A w \in DOMAIN dirs : /\ dirs'[w].catalog = dirs[w].catalog
                                /\ dirs[w].db = "v3" => dirs'[w].db = "v3"
  BY <1>1, SaveFiles
<1>3. SUFFICES ASSUME NEW w \in Worlds \ broken
               PROVE  /\ w \in DOMAIN dirs' <=> w \in DOMAIN profiles'
                      /\ w \in DOMAIN dirs' => dirs'[w].db = "v3" /\ dirs'[w].catalog
  BY DEF WorldsAreWhole
<1>4. /\ w \in DOMAIN dirs <=> w \in DOMAIN profiles
      /\ w \in DOMAIN dirs => dirs[w].db = "v3" /\ dirs[w].catalog
  BY DEF WorldsAreWhole
<1> QED BY <1>1, <1>2, <1>4

\* An operation that saves one composition and is done.
LEMMA SaveInv ==
    ASSUME HomeInv, NEW s, NEW p, Reachable(s), Save(s, p),
           minted' \in Nat, minted <= minted', Sound(s, p, minted'),
           process # Off, job.op # "migrate", Cut = {}, Cut' = {}, UNCHANGED past
    PROVE  FilesInv' /\ MarksInv' /\ WorldsAreWhole'
<1>1. s \in Scopes BY ReachableScope DEF HomeInv
<1>2. FilesInv' /\ DOMAIN profiles' = DOMAIN profiles \cup {s} BY <1>1, SaveFiles DEF HomeInv
<1>3. MarksInv' BY <1>2, MarksStay DEF HomeInv, past
<1>4. WorldsAreWhole' BY SaveWhole DEF HomeInv, past
<1> QED BY <1>2, <1>3, <1>4

LEMMA RewriteInv ==
    ASSUME HomeInv, NEW s, NEW p, Rewrite(s, p), Idle, process # Off,
           minted' \in Nat, minted <= minted', Sound(s, p, minted')
    PROVE  HomeInv'
<1>1. job.op = "none" /\ Cut = {} BY JobNames DEF Idle, Cut
<1>2. job' = NoJob /\ UNCHANGED past BY DEF Rewrite, Done
<1>3. JobInv' /\ Cut' = {} BY <1>2, NothingLeft
<1>4. FilesInv' /\ MarksInv' /\ WorldsAreWhole' BY <1>1, <1>2, <1>3, SaveInv DEF Rewrite
<1> QED BY <1>3, <1>4 DEF HomeInv

\* A step that changes no file.
LEMMA StandStill ==
    ASSUME HomeInv, UNCHANGED <<profiles, dirs, minted, past>>,
           process # Off /\ job.op # "migrate", JobInv', broken \cup Cut \subseteq broken' \cup Cut'
    PROVE  HomeInv'
<1>1. FilesInv' BY DEF HomeInv, FilesInv
<1>2. MarksInv' BY MarksStay DEF HomeInv, past
<1>3. WorldsAreWhole' BY DEF HomeInv, WorldsAreWhole, past
<1> QED BY <1>1, <1>2, <1>3 DEF HomeInv

-----------------------------------------------------------------------------
(* Compositions and policy.                                                *)

LEMMA SelectStep ==
    ASSUME HomeInv, Idle, process # Off, NEW s, NEW a, NEW on, SelectArtifact(s, a, on)
    PROVE  HomeInv'
<1>1. a \in Extensions /\ Rewrite(s, Selected(s, Load(s), a, on)) /\ Minted(s, Subject[a])
  BY DEF SelectArtifact, Available
<1>2. minted \in Nat BY DEF HomeInv, FilesInv
<1>3. /\ minted' \in Nat /\ minted <= minted'
      /\ SelectedId(s, Load(s), Subject[a]) = minted + 1 => minted + 1 <= minted'
  BY <1>1, <1>2 DEF Minted
<1>4. Sound(s, Load(s), minted) BY LoadSound DEF HomeInv
<1>5. Sound(s, Selected(s, Load(s), a, on), minted') BY <1>1, <1>2, <1>3, <1>4, SelectedSound
<1> QED BY <1>1, <1>3, <1>5, RewriteInv

\* A composition changed in place.
LEMMA EditStep ==
    ASSUME HomeInv, Idle, process # Off, NEW s, NEW p, Rewrite(s, p), Sound(s, p, minted),
           UNCHANGED minted
    PROVE  HomeInv'
<1>1. minted' \in Nat /\ minted <= minted' /\ Sound(s, p, minted') BY DEF HomeInv, FilesInv
<1> QED BY <1>1, RewriteInv

LEMMA EnableStep ==
    ASSUME HomeInv, Idle, process # Off, NEW s, NEW x, NEW on, SetEnabled(s, x, on)
    PROVE  HomeInv'
<1>1. PICK p : p = Load(s) OBVIOUS
<1>2. Sound(s, p, minted) BY <1>1, LoadSound DEF HomeInv
<1>3. PICK q : q = [p EXCEPT !.acts[x].on = on] OBVIOUS
<1>4. x \in DOMAIN p.acts /\ Rewrite(s, q) /\ UNCHANGED minted BY <1>1, <1>3 DEF SetEnabled
<1>5. Sound(s, q, minted) BY <1>2, <1>3, <1>4, EnabledSound
<1> QED BY <1>4, <1>5, EditStep

LEMMA RemoveStep ==
    ASSUME HomeInv, Idle, process # Off, NEW s, NEW x, RemoveActivation(s, x)
    PROVE  HomeInv'
<1>1. x \in DOMAIN Load(s).acts /\ Rewrite(s, Removed(Load(s), x)) /\ UNCHANGED minted
  BY DEF RemoveActivation
<1>2. Sound(s, Load(s), minted) BY LoadSound DEF HomeInv
<1>3. Sound(s, Removed(Load(s), x), minted) BY <1>1, <1>2, RemovedSound
<1> QED BY <1>1, <1>3, EditStep

LEMMA DefaultStep ==
    ASSUME HomeInv, Idle, process # Off, NEW x, NEW on, SetWorldDefault(x, on)
    PROVE  HomeInv'
<1>1. PICK base : base = Load(Baseline) OBVIOUS
<1>2. PICK recipe : recipe = Load(DefaultWorld) OBVIOUS
<1>3. PICK a : a = base.acts[x].artifact OBVIOUS
<1>4. /\ x \in DOMAIN base.acts
      /\ IF on
         THEN /\ Available(a)
              /\ Save(DefaultWorld, Selected(DefaultWorld, recipe, a, <<TRUE>>))
              /\ Minted(DefaultWorld, x)
              /\ job' = IF x \in DOMAIN recipe.acts THEN NoJob
                        ELSE [op |-> "policy", base |-> base, subject |-> x]
         ELSE /\ x \in DOMAIN recipe.acts
              /\ Save(DefaultWorld, Removed(recipe, x))
              /\ job' = NoJob /\ UNCHANGED minted
      /\ UNCHANGED <<stored, library, used, process, past>>
  BY <1>1, <1>2, <1>3, Zenon DEF SetWorldDefault
<1>5. Sound(Baseline, base, minted) /\ Sound(DefaultWorld, recipe, minted)
  BY <1>1, <1>2, LoadSound DEF HomeInv
<1>6. minted \in Nat /\ Reachable(DefaultWorld) BY DEF HomeInv, FilesInv, Reachable
<1>7. job.op = "none" /\ Cut = {} BY JobNames DEF Idle, Cut
<1>8. UNCHANGED past /\ process' = process BY <1>4
<1>9. CASE ~on
  <2>1. /\ x \in DOMAIN recipe.acts /\ Save(DefaultWorld, Removed(recipe, x))
        /\ job' = NoJob /\ UNCHANGED minted
    BY <1>4, <1>9
  <2>2. minted' \in Nat /\ minted <= minted' /\ Sound(DefaultWorld, Removed(recipe, x), minted')
    BY <1>5, <1>6, <2>1, RemovedSound
  <2>3. JobInv' /\ Cut' = {} BY <2>1, NothingLeft
  <2>4. FilesInv' /\ MarksInv' /\ WorldsAreWhole' BY <1>6, <1>7, <1>8, <2>1, <2>2, <2>3, SaveInv
  <2> QED BY <2>3, <2>4 DEF HomeInv
<1>10. CASE on
  <2>1. /\ a \in Extensions
        /\ Save(DefaultWorld, Selected(DefaultWorld, recipe, a, <<TRUE>>))
        /\ Minted(DefaultWorld, x)
        /\ job' = IF x \in DOMAIN recipe.acts THEN NoJob
                  ELSE [op |-> "policy", base |-> base, subject |-> x]
    BY <1>4, <1>10 DEF Available
  <2>2. Subject[a] = x BY <1>3, <1>4, <1>5 DEF Sound
  <2>3. /\ minted' \in Nat /\ minted <= minted'
        /\ SelectedId(DefaultWorld, recipe, x) = minted + 1 => minted + 1 <= minted'
    BY <1>2, <1>6, <2>1 DEF Minted
  <2>4. PICK q : q = Selected(DefaultWorld, recipe, a, <<TRUE>>) OBVIOUS
  <2>5. Sound(DefaultWorld, q, minted') /\ x \in DOMAIN q.acts /\ q.acts[x].artifact = a
    <3>1. /\ a \in Extensions
          /\ SelectedId(DefaultWorld, recipe, Subject[a]) = minted + 1 => minted + 1 <= minted'
      BY <2>1, <2>2, <2>3
    <3>2. /\ Sound(DefaultWorld, q, minted')
          /\ Subject[a] \in DOMAIN q.acts /\ q.acts[Subject[a]].artifact = a
      BY <1>5, <1>6, <2>3, <2>4, <3>1, SelectedSound
    <3> QED BY <2>2, <3>2
  <2>6. Save(DefaultWorld, q) BY <2>1, <2>4
  <2>7. Cut' = {}
    <3>1. CASE job' = NoJob BY <3>1, NothingLeft
    <3>2. CASE job' # NoJob BY <2>1, <3>2, JobNames
    <3> QED BY <3>1, <3>2
  <2>8. FilesInv' /\ MarksInv' /\ WorldsAreWhole' BY <1>6, <1>7, <1>8, <2>3, <2>5, <2>6, <2>7, SaveInv
  <2>9. JobInv'
    <3>1. CASE job' = NoJob BY <3>1, NothingLeft
    <3>2. CASE job' # NoJob
      <4>1. job' = [op |-> "policy", base |-> base, subject |-> x] BY <2>1, <3>2
      <4>2. job'.op = "policy" /\ job'.base = base /\ job'.subject = x BY <4>1
      <4>3. DefaultWorld \in DOMAIN profiles' /\ profiles'[DefaultWorld] = q
        BY <2>6 DEF Save, Put
      <4>4. Sound(Baseline, base, minted') BY <1>5, <1>6, <2>3, SoundLater
      <4> QED BY <1>3, <1>4, <1>8, <2>5, <4>2, <4>3, <4>4 DEF JobInv
    <3> QED BY <3>1, <3>2
  <2> QED BY <2>8, <2>9 DEF HomeInv
<1> QED BY <1>9, <1>10

LEMMA CopyPolicyStep ==
    ASSUME HomeInv, CopyPolicy
    PROVE  HomeInv'
<1>1. /\ job.op = "policy" /\ UNCHANGED <<minted, past>> /\ job' = NoJob /\ process' = process
      /\ Save(DefaultWorld, WithPolicyOf(Load(DefaultWorld), job.base, job.subject))
  BY DEF CopyPolicy, Done
<1>2. process # Off /\ job.op # "migrate" /\ Cut = {} BY <1>1, JobRuns DEF HomeInv, Cut
<1>3. /\ Sound(Baseline, job.base, minted) /\ job.subject \in DOMAIN job.base.acts
      /\ DefaultWorld \in DOMAIN profiles
      /\ job.subject \in DOMAIN profiles[DefaultWorld].acts
      /\ profiles[DefaultWorld].acts[job.subject].artifact = job.base.acts[job.subject].artifact
  BY <1>1 DEF HomeInv, JobInv
<1>4. PICK p : p = Load(DefaultWorld) OBVIOUS
<1>5. Sound(DefaultWorld, p, minted) /\ p = profiles[DefaultWorld]
  BY <1>3, <1>4, LoadSound DEF HomeInv, Load
<1>6. PICK q : q = WithPolicyOf(p, job.base, job.subject) OBVIOUS
<1>7. Sound(DefaultWorld, q, minted) BY <1>3, <1>5, <1>6, WithPolicySound
<1>8. /\ minted' \in Nat /\ minted <= minted' /\ Sound(DefaultWorld, q, minted')
      /\ Reachable(DefaultWorld) /\ Save(DefaultWorld, q)
  BY <1>1, <1>4, <1>6, <1>7 DEF HomeInv, FilesInv, Reachable
<1>9. JobInv' /\ Cut' = {} BY <1>1, NothingLeft
<1>10. FilesInv' /\ MarksInv' /\ WorldsAreWhole' BY <1>1, <1>2, <1>8, <1>9, SaveInv
<1> QED BY <1>9, <1>10 DEF HomeInv

LEMMA GrantStep ==
    ASSUME HomeInv, Idle, process # Off, NEW s, NEW id, NEW permission,
           Grant(s, id, permission) \/ Revoke(s, id, permission)
    PROVE  HomeInv'
<1>1. PICK p : p = Load(s) OBVIOUS
<1>2. Sound(s, p, minted) BY <1>1, LoadSound DEF HomeInv
<1>3. CASE Grant(s, id, permission)
  <2>1. PICK G : G = p.grants \cup {<<id, permission>>} OBVIOUS
  <2>2. PICK x \in DOMAIN p.acts :
           p.acts[x].id = id /\ permission \in Asks[p.acts[x].artifact]
    BY <1>1, <1>3 DEF Grant, Requested
  <2>3. Rewrite(s, [p EXCEPT !.grants = G]) /\ UNCHANGED minted BY <1>1, <1>3, <2>1 DEF Grant
  <2>4. Sound(s, [p EXCEPT !.grants = G], minted) BY <1>2, <2>1, <2>2, GrantsSound
  <2> QED BY <2>3, <2>4, EditStep
<1>4. CASE Revoke(s, id, permission)
  <2>1. PICK G : G = p.grants \ {<<id, permission>>} OBVIOUS
  <2>2. Rewrite(s, [p EXCEPT !.grants = G]) /\ UNCHANGED minted BY <1>1, <1>4, <2>1 DEF Revoke
  <2>3. Sound(s, [p EXCEPT !.grants = G], minted) BY <1>2, <2>1, GrantsSound
  <2> QED BY <2>2, <2>3, EditStep
<1> QED BY <1>3, <1>4

LEMMA PreferStep ==
    ASSUME HomeInv, Idle, process # Off, NEW s, NEW c,
           ClearPreferredProvider(s, c) \/ \E id : SetPreferredProvider(s, c, id)
    PROVE  HomeInv'
<1>1. PICK p : p = Load(s) OBVIOUS
<1>2. Sound(s, p, minted) BY <1>1, LoadSound DEF HomeInv
<1>3. \A d \in DOMAIN p.preferred : p.preferred[d] \in Instances(p.acts)
  BY <1>2 DEF Sound, Grounded
<1>4. CASE ClearPreferredProvider(s, c)
  <2>1. PICK R : R = Without(p.preferred, {c}) OBVIOUS
  <2>2. Rewrite(s, [p EXCEPT !.preferred = R]) /\ UNCHANGED minted
    BY <1>1, <1>4, <2>1 DEF ClearPreferredProvider
  <2>3. \A d \in DOMAIN R : R[d] \in Instances(p.acts) BY <1>3, <2>1 DEF Without
  <2>4. Sound(s, [p EXCEPT !.preferred = R], minted) BY <1>2, <2>3, PreferredSound
  <2> QED BY <2>2, <2>4, EditStep
<1>5. CASE \E id : SetPreferredProvider(s, c, id)
  <2>1. PICK id : SetPreferredProvider(s, c, id) BY <1>5
  <2>2. PICK R : R = Put(p.preferred, c, id) OBVIOUS
  <2>3. /\ Rewrite(s, [p EXCEPT !.preferred = R]) /\ UNCHANGED minted
        /\ id \in Instances(p.acts)
    BY <1>1, <2>1, <2>2 DEF SetPreferredProvider
  <2>4. \A d \in DOMAIN R : R[d] \in Instances(p.acts) BY <1>3, <2>2, <2>3 DEF Put
  <2>5. Sound(s, [p EXCEPT !.preferred = R], minted) BY <1>2, <2>4, PreferredSound
  <2> QED BY <2>3, <2>5, EditStep
<1> QED BY <1>4, <1>5

LEMMA PreferenceStep ==
    ASSUME HomeInv, Idle, process # Off, NEW s, NEW id, PreferenceAccess(s, id)
    PROVE  HomeInv'
<1>1. PICK p : p = Load(s) OBVIOUS
<1>2. Sound(s, p, minted) BY <1>1, LoadSound DEF HomeInv
<1>3. PICK key : SetPreference(s, id, key) \/ DeletePreference(s, id, key) BY DEF PreferenceAccess
<1>4. PICK F : Rewrite(s, [p EXCEPT !.prefs = F]) /\ UNCHANGED minted
  BY <1>1, <1>3 DEF SetPreference, DeletePreference
<1>5. Sound(s, [p EXCEPT !.prefs = F], minted) BY <1>2, PreferencesSound
<1> QED BY <1>4, <1>5, EditStep

LEMMA CompositionStep ==
    ASSUME HomeInv, Idle, process # Off, NEW s, CompositionAccess(s)
    PROVE  HomeInv'
  BY SelectStep, RemoveStep, EnableStep, DefaultStep, PreferStep DEF CompositionAccess

LEMMA PolicyStep ==
    ASSUME HomeInv, Idle, process # Off, NEW s, RuntimePolicyAccess(s)
    PROVE  HomeInv'
  BY GrantStep DEF RuntimePolicyAccess

-----------------------------------------------------------------------------
(* Opening a home, and the migration of an older one.                      *)

LEMMA OpenStep ==
    ASSUME HomeInv, OpenHome
    PROVE  HomeInv'
<1>1. /\ Idle /\ process' = Command /\ UNCHANGED <<files, minted, past>>
      /\ job' = IF Marked(Load(Baseline)) = {} THEN NoJob
                ELSE [op |-> "migrate", base |-> Load(Baseline),
                      left |-> IF DefaultWorld \in DOMAIN profiles THEN 1 ELSE 2]
  BY DEF OpenHome, ids
<1>2. UNCHANGED <<profiles, dirs, minted, broken, legacy>> BY <1>1 DEF files, past
<1>3. process' # Off BY <1>1, RunNames
<1>4. FilesInv' BY <1>2 DEF HomeInv, FilesInv
<1>5. Load(Baseline)' = Load(Baseline) BY <1>2 DEF Load
<1>6. CASE Marked(Load(Baseline)) = {}
  <2>1. JobInv' /\ Cut' = {} BY <1>1, <1>6, NothingLeft
  <2>2. MarksInv' BY <1>2, <1>6 DEF HomeInv, MarksInv
  <2>3. WorldsAreWhole' BY <1>1, <1>2, <2>1, JobNames DEF HomeInv, WorldsAreWhole, Idle, Cut
  <2> QED BY <1>4, <2>1, <2>2, <2>3 DEF HomeInv
<1>7. CASE Marked(Load(Baseline)) # {}
  <2>1. PICK base : base = Load(Baseline) OBVIOUS
  <2>2. PICK left : left = IF DefaultWorld \in DOMAIN profiles THEN 1 ELSE 2 OBVIOUS
  <2>3. job' = [op |-> "migrate", base |-> base, left |-> left] BY <1>1, <1>7, <2>1, <2>2
  <2>4. job'.op = "migrate" /\ job'.base = base /\ job'.left = left BY <2>3
  <2>5. Marked(base) # {} BY <1>7, <2>1
  <2>6. job'.left = IF DefaultWorld \in DOMAIN profiles' THEN 1 ELSE 2 BY <1>2, <2>2, <2>4
  <2>7. job' = [op |-> "migrate", base |-> Load(Baseline)', left |-> job'.left]
    BY <1>5, <2>1, <2>3, <2>4
  <2>8. JobInv' BY <1>3, <2>4, <2>5, <2>6, <2>7 DEF JobInv
  <2>9. MarksInv' BY <1>2, <1>5, <1>7, <2>4 DEF MarksInv, Marked
  <2>10. Cut' = {} BY <2>4, JobNames
  <2>11. WorldsAreWhole' BY <1>1, <1>2, <2>10, JobNames DEF HomeInv, WorldsAreWhole, Idle, Cut
  <2> QED BY <1>4, <2>8, <2>9, <2>11 DEF HomeInv
<1> QED BY <1>6, <1>7

\* The recipe first, then the marks.
LEMMA MigrateStep ==
    ASSUME HomeInv, Migrate
    PROVE  HomeInv'
<1>1. /\ job.op = "migrate" /\ MigrationWrite(job.base)
      /\ minted' = minted + Cardinality(Marked(job.base))
      /\ job' = IF job.left = 1 THEN NoJob ELSE [job EXCEPT !.left = 1]
      /\ process' = process /\ UNCHANGED past
  BY DEF Migrate
<1>2. PICK base : base = Load(Baseline) OBVIOUS
<1>3. PICK S : S = Marked(base) OBVIOUS
<1>4. /\ job = [op |-> "migrate", base |-> base, left |-> job.left]
      /\ S # {} /\ job.left = IF DefaultWorld \in DOMAIN profiles THEN 1 ELSE 2
  BY <1>1, <1>2, <1>3 DEF HomeInv, JobInv
<1>5. job.base = base BY <1>4
<1>6. Sound(Baseline, base, minted) /\ minted \in Nat BY <1>2, LoadSound DEF HomeInv, FilesInv
<1>7. S \in SUBSET DOMAIN base.acts BY <1>3 DEF Marked
<1>8. /\ minted' = minted + Cardinality(S) /\ minted' \in Nat /\ minted <= minted'
      /\ Sound(DefaultWorld, Materialized(base, S), minted')
  <2>1. DefaultWorld # Baseline BY HomeAssumption
  <2>2. /\ Cardinality(S) \in Nat
        /\ Sound(DefaultWorld, Materialized(base, S), minted + Cardinality(S))
    BY <1>6, <1>7, <2>1, MaterializedSound
  <2>3. minted' = minted + Cardinality(S) BY <1>1, <1>3, <1>5
  <2> QED BY <1>6, <2>2, <2>3
<1>9. Cut = {} /\ process # Off BY <1>1, JobRuns DEF Cut, HomeInv
<1>10. CASE DefaultWorld \notin DOMAIN profiles
  <2>1. PICK q : q = Materialized(base, S) OBVIOUS
  <2>2. Save(DefaultWorld, q) BY <1>1, <1>3, <1>5, <1>10, <2>1 DEF MigrationWrite
  <2>3. job.left = 2 /\ job' = [job EXCEPT !.left = 1] BY <1>1, <1>4, <1>10
  <2>4. job' = [op |-> "migrate", base |-> base, left |-> 1] BY <1>4, <2>3
  <2>5. job'.op = "migrate" /\ job'.base = base /\ job'.left = 1 BY <2>4
  <2>6. Cut' = {} BY <2>5, JobNames
  <2>7. DefaultWorld \in Scopes /\ Reachable(DefaultWorld) BY DEF Scopes, Reachable
  <2>8. /\ FilesInv' /\ DefaultWorld \in DOMAIN profiles'
        /\ \A t \in DOMAIN profiles : profiles'[t] = profiles[t]
        /\ DOMAIN profiles' = DOMAIN profiles \cup {DefaultWorld}
    BY <1>8, <1>10, <2>1, <2>2, <2>7, SaveFiles DEF HomeInv
  <2>9. WorldsAreWhole'
    BY <1>1, <1>8, <1>9, <2>1, <2>2, <2>6, <2>7, SaveWhole DEF HomeInv, past
  <2>10. Load(Baseline)' = base BY <1>2, <2>8, HomeAssumption DEF Load
  <2>11. JobInv' BY <1>1, <1>3, <1>4, <1>9, <2>4, <2>5, <2>8, <2>10 DEF JobInv
  <2>12. MarksInv' BY <2>8 DEF MarksInv
  <2> QED BY <2>8, <2>9, <2>11, <2>12 DEF HomeInv
<1>11. CASE DefaultWorld \in DOMAIN profiles
  <2>1. PICK q : q = Unmarked(base) OBVIOUS
  <2>2. Save(Baseline, q) BY <1>1, <1>5, <1>11, <2>1 DEF MigrationWrite
  <2>3. JobInv' /\ Cut' = {} BY <1>1, <1>4, <1>11, NothingLeft
  <2>4. Sound(Baseline, q, minted') BY <1>6, <1>8, <2>1, UnmarkedSound, SoundLater
  <2>5. Baseline \in Scopes /\ Reachable(Baseline) BY DEF Scopes, Reachable
  <2>6. FilesInv' /\ DOMAIN profiles' = DOMAIN profiles \cup {Baseline}
    BY <1>8, <2>2, <2>4, <2>5, SaveFiles DEF HomeInv
  <2>7. WorldsAreWhole'
    BY <1>1, <1>8, <1>9, <2>2, <2>3, <2>4, <2>5, SaveWhole DEF HomeInv, past
  <2>8. MarksInv' BY <1>11, <2>6 DEF MarksInv
  <2> QED BY <2>3, <2>6, <2>7, <2>8 DEF HomeInv
<1> QED BY <1>10, <1>11

\* A process that dies, or a home that does not open, leaves the files as they are.
LEMMA FaultStep ==
    ASSUME HomeInv, Crash \/ WriteFails
    PROVE  HomeInv'
<1>1. /\ UNCHANGED <<profiles, dirs, minted, legacy>> /\ job' = NoJob
      /\ broken' = broken \cup Cut
  BY DEF Crash, WriteFails, files, ids
<1>2. FilesInv' BY <1>1 DEF HomeInv, FilesInv
<1>3. JobInv' /\ Cut' = {} BY <1>1, NothingLeft
<1>4. WorldsAreWhole' BY <1>1, <1>3 DEF HomeInv, WorldsAreWhole
<1>5. process' = Off \/ (process # Off /\ job.op # "migrate")
  <2>1. CASE Crash BY <2>1 DEF Crash
  <2>2. CASE WriteFails
    <3>1. CASE job.op = "migrate" BY <2>2, <3>1 DEF WriteFails
    <3>2. CASE job.op # "migrate" BY <2>2, <3>2, JobRuns DEF WriteFails, HomeInv
    <3> QED BY <3>1, <3>2
  <2> QED BY <2>1, <2>2
<1>6. MarksInv'
  <2>1. Load(Baseline)' = Load(Baseline) BY <1>1 DEF Load
  <2> QED BY <1>1, <1>5, <2>1 DEF HomeInv, MarksInv, Marked
<1> QED BY <1>2, <1>3, <1>4, <1>6 DEF HomeInv

-----------------------------------------------------------------------------
(* Worlds.                                                                 *)

\* A step that makes no world less whole than it was.
LEMMA DirsStep ==
    ASSUME HomeInv, UNCHANGED <<profiles, minted, past>>, DOMAIN dirs' = DOMAIN dirs,
           \A w \in DOMAIN dirs : /\ IsDir(dirs'[w])
                                  /\ dirs[w].catalog => dirs'[w].catalog
                                  /\ dirs[w].db = "v3" => dirs'[w].db = "v3",
           process # Off, job.op # "migrate", JobInv', Cut \subseteq Cut'
    PROVE  HomeInv'
<1>1. FilesInv' BY DEF HomeInv, FilesInv
<1>2. MarksInv' BY MarksStay DEF HomeInv, past
<1>3. WorldsAreWhole'
  <2>1. SUFFICES ASSUME NEW w \in (Worlds \ broken) \ Cut
                 PROVE  /\ w \in DOMAIN dirs' <=> w \in DOMAIN profiles'
                        /\ w \in DOMAIN dirs' => dirs'[w].db = "v3" /\ dirs'[w].catalog
    BY DEF WorldsAreWhole, past
  <2>2. /\ w \in DOMAIN dirs <=> w \in DOMAIN profiles
        /\ w \in DOMAIN dirs => dirs[w].db = "v3" /\ dirs[w].catalog
    BY DEF HomeInv, WorldsAreWhole
  <2> QED BY <2>2
<1> QED BY <1>1, <1>2, <1>3 DEF HomeInv

LEMMA IdleJob ==
    ASSUME Idle, job' = job
    PROVE  job.op = "none" /\ Cut = {} /\ Cut' = {} /\ JobInv'
  BY JobNames, NothingLeft DEF Idle, Cut

LEMMA ActivateStep ==
    ASSUME HomeInv, NEW w, ActivateWorld(w)
    PROVE  HomeInv'
<1>1. /\ Idle /\ process # Off /\ job' = job /\ dirs' = Opened(w)
      /\ UNCHANGED <<profiles, minted, past>>
  BY RunNames DEF ActivateWorld, Between, ids
<1>2. /\ DOMAIN dirs' = DOMAIN dirs
      /\ \A v \in DOMAIN dirs : /\ IsDir(dirs'[v])
                                /\ dirs[v].catalog => dirs'[v].catalog
                                /\ dirs[v].db = "v3" => dirs'[v].db = "v3"
  BY <1>1, OpenedDirs DEF HomeInv
<1> QED BY <1>1, <1>2, IdleJob, DirsStep

LEMMA CreateWorldStep ==
    ASSUME HomeInv, Idle, process # Off, NEW w \in Worlds, CreateWorld(w)
    PROVE  HomeInv'
<1>1. PICK recipe : recipe = Load(DefaultWorld) OBVIOUS
<1>2. /\ dirs' = Put(dirs, w, [db |-> "none", catalog |-> FALSE, cover |-> <<>>])
      /\ job' = [op |-> "create", world |-> w, recipe |-> recipe]
      /\ UNCHANGED <<profiles, minted, past>> /\ Spend
  BY <1>1 DEF CreateWorld
<1>3. process' # Off
  <2>1. CASE process.run = "session"
    <3>1. process' = [process EXCEPT !.writes = @ + 1] BY <1>2, <2>1 DEF Spend
    <3>2. process'.run = "session" BY <2>1, <3>1
    <3> QED BY <3>2, RunNames
  <2>2. CASE process.run # "session" BY <1>2, <2>2 DEF Spend
  <2> QED BY <2>1, <2>2
<1>4. /\ DOMAIN dirs' = DOMAIN dirs \cup {w} /\ IsDir(dirs'[w])
      /\ \A v \in DOMAIN dirs : v # w => dirs'[v] = dirs[v]
  <2>1. PICK d : d = [db |-> "none", catalog |-> FALSE, cover |-> <<>>] OBVIOUS
  <2>2. IsDir(d) BY <2>1 DEF IsDir
  <2> QED BY <1>2, <2>1, <2>2 DEF Put
<1>5. FilesInv' BY <1>2, <1>4 DEF HomeInv, FilesInv
<1>6. job'.op = "create" /\ job'.world = w /\ job'.recipe = recipe BY <1>2
<1>7. Sound(DefaultWorld, recipe, minted') BY <1>1, <1>2, LoadSound DEF HomeInv
<1>8. JobInv' BY <1>3, <1>4, <1>6, <1>7 DEF JobInv
<1>9. job.op = "none" /\ Cut = {} /\ Cut' = {w} BY <1>6, JobNames DEF Idle, Cut
<1>10. MarksInv' BY <1>2, <1>9, MarksStay DEF HomeInv, past
<1>11. WorldsAreWhole' BY <1>2, <1>4, <1>9 DEF HomeInv, WorldsAreWhole, past
<1> QED BY <1>5, <1>8, <1>10, <1>11 DEF HomeInv

LEMMA DeleteWorldStep ==
    ASSUME HomeInv, Idle, process # Off, NEW w, DeleteWorld(w)
    PROVE  HomeInv'
<1>1. /\ dirs' = Opened(w) /\ job' = [op |-> "delete", world |-> w] /\ w \in DOMAIN dirs
      /\ UNCHANGED <<profiles, minted, past>> /\ Spend
  BY DEF DeleteWorld, ids, Openable
<1>2. process' # Off
  <2>1. CASE process.run = "session"
    <3>1. process' = [process EXCEPT !.writes = @ + 1] BY <1>1, <2>1 DEF Spend
    <3>2. process'.run = "session" BY <2>1, <3>1
    <3> QED BY <3>2, RunNames
  <2>2. CASE process.run # "session" BY <1>1, <2>2 DEF Spend
  <2> QED BY <2>1, <2>2
<1>3. /\ DOMAIN dirs' = DOMAIN dirs
      /\ \A v \in DOMAIN dirs : /\ IsDir(dirs'[v])
                                /\ dirs[v].catalog => dirs'[v].catalog
                                /\ dirs[v].db = "v3" => dirs'[v].db = "v3"
  BY <1>1, OpenedDirs DEF HomeInv
<1>4. job'.op = "delete" /\ job'.world = w BY <1>1
<1>5. JobInv' BY <1>1, <1>2, <1>3, <1>4 DEF JobInv
<1>6. job.op = "none" /\ Cut = {} BY JobNames DEF Idle, Cut
<1> QED BY <1>1, <1>3, <1>5, <1>6, DirsStep

LEMMA ListStep ==
    ASSUME HomeInv, Idle, process # Off, NEW w, ListWorlds(w)
    PROVE  HomeInv'
<1>1. /\ w \in DOMAIN dirs /\ dirs' = [dirs EXCEPT ![w].catalog = TRUE]
      /\ job' = job /\ UNCHANGED <<profiles, minted, past>>
  BY DEF ListWorlds, ids
<1>2. PICK t : t = TRUE OBVIOUS
<1>3. dirs'[w] = [dirs[w] EXCEPT !.catalog = t] BY <1>1, <1>2
<1>4. dirs'[w] = [db |-> dirs[w].db, catalog |-> t, cover |-> dirs[w].cover]
  BY <1>1, <1>3 DEF HomeInv, FilesInv, IsDir
<1>5. IsDir(dirs'[w]) /\ dirs'[w].db = dirs[w].db /\ dirs'[w].catalog
  BY <1>2, <1>4 DEF IsDir
<1>6. DOMAIN dirs' = DOMAIN dirs /\ \A v \in DOMAIN dirs : v # w => dirs'[v] = dirs[v]
  BY <1>1
<1>7. \A v \in DOMAIN dirs : /\ IsDir(dirs'[v])
                             /\ dirs[v].catalog => dirs'[v].catalog
                             /\ dirs[v].db = "v3" => dirs'[v].db = "v3"
  BY <1>5, <1>6 DEF HomeInv, FilesInv
<1> QED BY <1>1, <1>6, <1>7, IdleJob, DirsStep

LEMMA MetadataStep ==
    ASSUME HomeInv, Idle, process # Off, NEW w, NEW cover, SetMetadata(w, cover)
    PROVE  HomeInv'
<1>1. /\ dirs' = [dirs EXCEPT ![w] = [db |-> "v3", catalog |-> TRUE, cover |-> cover]]
      /\ w \in DOMAIN dirs /\ job' = job /\ UNCHANGED <<profiles, minted, past>>
  BY DEF SetMetadata, Openable, ids
<1>2. PICK t : t = TRUE OBVIOUS
<1>3. dirs'[w] = [db |-> "v3", catalog |-> t, cover |-> cover] BY <1>1, <1>2
<1>4. IsDir(dirs'[w]) /\ dirs'[w].db = "v3" /\ dirs'[w].catalog BY <1>2, <1>3 DEF IsDir
<1>5. DOMAIN dirs' = DOMAIN dirs /\ \A v \in DOMAIN dirs : v # w => dirs'[v] = dirs[v]
  BY <1>1
<1>6. \A v \in DOMAIN dirs : /\ IsDir(dirs'[v])
                             /\ dirs[v].catalog => dirs'[v].catalog
                             /\ dirs[v].db = "v3" => dirs'[v].db = "v3"
  BY <1>4, <1>5 DEF HomeInv, FilesInv
<1> QED BY <1>1, <1>5, <1>6, IdleJob, DirsStep

\* A file of the world that is being made, or removed.
LEMMA WorldFiles ==
    ASSUME HomeInv, job.op \in {"create", "undo", "delete"}, NEW d, IsDir(d),
           dirs' = [dirs EXCEPT ![job.world] = d],
           UNCHANGED <<profiles, minted, process, job, past>>
    PROVE  HomeInv'
<1>1. job.world \in DOMAIN dirs /\ process # Off /\ job.op # "migrate" /\ Cut = {job.world}
  BY JobRuns DEF HomeInv, JobInv, Cut
<1>2. /\ DOMAIN dirs' = DOMAIN dirs /\ dirs'[job.world] = d
      /\ \A w \in DOMAIN dirs : w # job.world => dirs'[w] = dirs[w]
  BY <1>1
<1>3. FilesInv' BY <1>2 DEF HomeInv, FilesInv
<1>4. JobInv' BY <1>1, <1>2 DEF HomeInv, JobInv
<1>5. MarksInv' BY <1>1, MarksStay DEF HomeInv, past
<1>6. Cut' = Cut BY DEF Cut
<1>7. WorldsAreWhole' BY <1>1, <1>2, <1>6 DEF HomeInv, WorldsAreWhole, past
<1> QED BY <1>3, <1>4, <1>5, <1>7 DEF HomeInv

LEMMA DirEdit ==
    ASSUME NEW d, IsDir(d), NEW v, NEW u
    PROVE  IsDir([d EXCEPT !.db = v]) /\ IsDir([d EXCEPT !.catalog = v]) /\ IsDir([d EXCEPT !.cover = u])
<1>1. [d EXCEPT !.db = v] = [db |-> v, catalog |-> d.catalog, cover |-> d.cover] BY DEF IsDir
<1>2. [d EXCEPT !.catalog = v] = [db |-> d.db, catalog |-> v, cover |-> d.cover] BY DEF IsDir
<1>3. [d EXCEPT !.cover = u] = [db |-> d.db, catalog |-> d.catalog, cover |-> u] BY DEF IsDir
<1>4. \A a, b, c : IsDir([db |-> a, catalog |-> b, cover |-> c]) BY DEF IsDir
<1> QED BY <1>1, <1>2, <1>3, <1>4

\* The database, the catalog and the composition, in this order.
LEMMA CreateStepInv ==
    ASSUME HomeInv, CreateStep
    PROVE  HomeInv'
<1>1. PICK w : w = job.world OBVIOUS
<1>2. job.op = "create" /\ UNCHANGED <<process, past>> BY DEF CreateStep
<1>3. /\ w \in DOMAIN dirs /\ w \in Worlds /\ IsDir(dirs[w])
      /\ Sound(DefaultWorld, job.recipe, minted) /\ minted \in Nat
  BY <1>1, <1>2 DEF HomeInv, JobInv, FilesInv
<1>4. CASE dirs[w].db # "v3"
  <2>1. /\ dirs' = [dirs EXCEPT ![w].db = NextStage(@)]
        /\ UNCHANGED <<profiles, minted, job>>
    BY <1>1, <1>4 DEF CreateStep
  <2>2. PICK v : v = NextStage(dirs[w].db) OBVIOUS
  <2>3. PICK d : d = [dirs[w] EXCEPT !.db = v] OBVIOUS
  <2>4. dirs' = [dirs EXCEPT ![w] = d] BY <2>1, <2>2, <2>3
  <2>5. IsDir(d) BY <1>3, <2>3, DirEdit
  <2> QED BY <1>1, <1>2, <2>1, <2>4, <2>5, WorldFiles
<1>5. CASE dirs[w].db = "v3" /\ ~dirs[w].catalog
  <2>1. /\ dirs' = [dirs EXCEPT ![w].catalog = TRUE]
        /\ UNCHANGED <<profiles, minted, job>>
    BY <1>1, <1>5 DEF CreateStep
  <2>2. PICK v : v = TRUE OBVIOUS
  <2>3. PICK d : d = [dirs[w] EXCEPT !.catalog = v] OBVIOUS
  <2>4. dirs' = [dirs EXCEPT ![w] = d] BY <2>1, <2>2, <2>3
  <2>5. IsDir(d) BY <1>3, <2>3, DirEdit
  <2> QED BY <1>1, <1>2, <2>1, <2>4, <2>5, WorldFiles
<1>6. CASE dirs[w].db = "v3" /\ dirs[w].catalog
  <2>1. PICK p : p = job.recipe OBVIOUS
  <2>2. PICK S : S = DOMAIN p.acts OBVIOUS
  <2>3. PICK q : q = Materialized(p, S) OBVIOUS
  <2>4. Save(w, q) /\ minted' = minted + Cardinality(S) /\ job' = NoJob
    BY <1>1, <1>6, <2>1, <2>2, <2>3 DEF CreateStep
  <2>5. w # Baseline /\ w # DefaultWorld /\ w \in Scopes BY <1>3, HomeAssumption DEF Scopes
  <2>6. Cardinality(S) \in Nat /\ Sound(w, q, minted + Cardinality(S))
    BY <1>3, <2>1, <2>2, <2>3, <2>5, MaterializedSound
  <2>7. minted' \in Nat /\ minted <= minted' /\ Sound(w, q, minted') BY <1>3, <2>4, <2>6
  <2>8. /\ FilesInv' /\ DOMAIN profiles' = DOMAIN profiles \cup {w}
        /\ DOMAIN dirs' = DOMAIN dirs
        /\ \A v \in DOMAIN dirs : /\ dirs'[v].catalog = dirs[v].catalog
                                  /\ dirs[v].db = "v3" => dirs'[v].db = "v3"
    BY <2>4, <2>5, <2>7, SaveFiles DEF HomeInv
  <2>9. JobInv' /\ Cut' = {} BY <2>4, NothingLeft
  <2>10. MarksInv' BY <1>2, <2>8, JobRuns, MarksStay DEF HomeInv, past
  <2>11. WorldsAreWhole'
    <3>1. SUFFICES ASSUME NEW v \in Worlds \ broken
                   PROVE  /\ v \in DOMAIN dirs' <=> v \in DOMAIN profiles'
                          /\ v \in DOMAIN dirs' => dirs'[v].db = "v3" /\ dirs'[v].catalog
      BY <1>2 DEF WorldsAreWhole, past
    <3>2. CASE v = w BY <1>3, <1>6, <2>8, <3>2
    <3>3. CASE v # w
      <4>1. v \notin Cut BY <1>1, <1>2, <3>3 DEF Cut
      <4>2. /\ v \in DOMAIN dirs <=> v \in DOMAIN profiles
            /\ v \in DOMAIN dirs => dirs[v].db = "v3" /\ dirs[v].catalog
        BY <4>1 DEF HomeInv, WorldsAreWhole
      <4> QED BY <2>8, <3>3, <4>2
    <3> QED BY <3>2, <3>3
  <2> QED BY <2>8, <2>9, <2>10, <2>11 DEF HomeInv
<1> QED BY <1>4, <1>5, <1>6

LEMMA CreateFailsStep ==
    ASSUME HomeInv, CreateFails
    PROVE  HomeInv'
<1>1. /\ job.op = "create" /\ job' = [op |-> "undo", world |-> job.world]
      /\ UNCHANGED <<files, ids, process, broken, legacy>>
  BY DEF CreateFails, AfterCreateError
<1>2. UNCHANGED <<profiles, dirs, minted>> BY <1>1 DEF files, ids
<1>3. job.world \in DOMAIN dirs /\ process # Off BY <1>1, JobRuns DEF HomeInv, JobInv
<1>4. job'.op = "undo" /\ job'.world = job.world BY <1>1
<1>5. JobInv' BY <1>1, <1>2, <1>3, <1>4 DEF JobInv
<1>6. Cut' = Cut BY <1>1, <1>4 DEF Cut
<1>7. FilesInv' BY <1>2 DEF HomeInv, FilesInv
<1>8. MarksInv' BY <1>1, <1>2, <1>3, MarksStay DEF HomeInv
<1>9. WorldsAreWhole' BY <1>1, <1>2, <1>6 DEF HomeInv, WorldsAreWhole
<1> QED BY <1>5, <1>7, <1>8, <1>9 DEF HomeInv

\* Nothing of a world that is removed is whole until its directory is gone.
LEMMA RemoveEntryStep ==
    ASSUME HomeInv, RemoveEntry
    PROVE  HomeInv'
<1>1. PICK w : w = job.world OBVIOUS
<1>2. job.op \in {"undo", "delete"} /\ UNCHANGED <<minted, process, past>> BY DEF RemoveEntry, ids
<1>3. /\ w \in DOMAIN dirs /\ w \in Worlds /\ IsDir(dirs[w]) /\ process # Off /\ Cut = {w}
  BY <1>1, <1>2, JobRuns DEF HomeInv, JobInv, FilesInv, Cut
<1>4. CASE dirs' = [dirs EXCEPT ![w].db = "none"] /\ UNCHANGED <<profiles, job>>
  <2>1. PICK d : d = [dirs[w] EXCEPT !.db = "none"] OBVIOUS
  <2>2. dirs' = [dirs EXCEPT ![w] = d] BY <1>4, <2>1
  <2>3. IsDir(d) BY <1>3, <2>1, DirEdit
  <2> QED BY <1>1, <1>2, <1>4, <2>2, <2>3, WorldFiles
<1>5. CASE /\ dirs' = [dirs EXCEPT ![w].catalog = FALSE, ![w].cover = <<>>]
           /\ UNCHANGED <<profiles, job>>
  <2>1. PICK f : f = FALSE OBVIOUS
  <2>2. PICK e : e = [dirs[w] EXCEPT !.catalog = f] OBVIOUS
  <2>3. PICK d : d = [e EXCEPT !.cover = <<>>] OBVIOUS
  <2>4. dirs' = [dirs EXCEPT ![w] = d] BY <1>3, <1>5, <2>1, <2>2, <2>3
  <2>5. IsDir(e) BY <1>3, <2>2, DirEdit
  <2>6. IsDir(d) BY <2>3, <2>5, DirEdit
  <2> QED BY <1>1, <1>2, <1>5, <2>4, <2>6, WorldFiles
<1>6. CASE profiles' = Without(profiles, {w}) /\ UNCHANGED <<dirs, job>>
  <2>1. /\ DOMAIN profiles' = DOMAIN profiles \ {w}
        /\ \A s \in DOMAIN profiles' : profiles'[s] = profiles[s]
    BY <1>6 DEF Without
  <2>2. FilesInv' BY <1>2, <1>6, <2>1 DEF HomeInv, FilesInv
  <2>3. w # DefaultWorld BY <1>3, HomeAssumption
  <2>4. MarksInv' BY <1>2, <1>3, <2>1, <2>3, MarksStay DEF HomeInv, past
  <2>5. Cut' = {w} BY <1>1, <1>2, <1>6 DEF Cut
  <2>6. WorldsAreWhole' BY <1>2, <1>3, <1>6, <2>1, <2>5 DEF HomeInv, WorldsAreWhole, past
  <2>7. JobInv' BY <1>1, <1>2, <1>3, <1>6 DEF JobInv
  <2> QED BY <2>2, <2>4, <2>6, <2>7 DEF HomeInv
<1>7. CASE /\ w \notin DOMAIN profiles /\ dirs' = Without(dirs, {w}) /\ job' = NoJob
           /\ UNCHANGED profiles
  <2>1. /\ DOMAIN dirs' = DOMAIN dirs \ {w}
        /\ \A v \in DOMAIN dirs' : dirs'[v] = dirs[v]
    BY <1>7 DEF Without
  <2>2. FilesInv' BY <1>2, <1>7, <2>1 DEF HomeInv, FilesInv
  <2>3. MarksInv' BY <1>2, <1>3, <1>7, MarksStay DEF HomeInv, past
  <2>4. JobInv' /\ Cut' = {} BY <1>7, NothingLeft
  <2>5. WorldsAreWhole' BY <1>2, <1>3, <1>7, <2>1 DEF HomeInv, WorldsAreWhole, past
  <2> QED BY <2>2, <2>3, <2>4, <2>5 DEF HomeInv
<1> QED BY <1>1, <1>4, <1>5, <1>6, <1>7 DEF RemoveEntry

-----------------------------------------------------------------------------
(* Jobs that are begun and ended without a composition.                    *)

\* A job of which the worlds and compositions depend on nothing.
LEMMA JobBegun ==
    ASSUME HomeInv, process' # Off,
           job'.op \notin {"migrate", "policy", "create", "undo", "delete"}
    PROVE  JobInv' /\ Cut' = {}
  BY JobNames DEF JobInv

LEMMA InstallStep ==
    ASSUME HomeInv, Idle, process # Off, NEW a, NEW on, InstallLocal(a, on)
    PROVE  HomeInv'
<1>1. /\ job' = [op |-> "select", artifact |-> a, on |-> on] /\ process' = process
      /\ UNCHANGED <<profiles, dirs, minted, past>>
  BY DEF InstallLocal, ids
<1>2. job'.op = "select" BY <1>1
<1>3. JobInv' /\ Cut' = {} BY <1>1, <1>2, JobBegun
<1>4. job.op = "none" /\ Cut = {} BY JobNames DEF Idle, Cut
<1> QED BY <1>1, <1>3, <1>4, StandStill DEF past

LEMMA InstallSelectStep ==
    ASSUME HomeInv, InstallSelect
    PROVE  HomeInv'
<1>1. PICK a : a = job.artifact OBVIOUS
<1>2. PICK p : p = Load(Baseline) OBVIOUS
<1>3. PICK q : q = Selected(Baseline, p, a, job.on) OBVIOUS
<1>4. /\ job.op = "select" /\ a \in Extensions /\ Save(Baseline, q)
      /\ job' = NoJob /\ UNCHANGED <<process, past, minted>>
  BY <1>1, <1>2, <1>3 DEF InstallSelect, Available, Done
<1>5. Sound(Baseline, p, minted) /\ minted \in Nat BY <1>2, LoadSound DEF HomeInv, FilesInv
<1>6. Sound(Baseline, q, minted')
  <2>1. CASE SelectedId(Baseline, p, Subject[a]) # minted + 1
    <3>1. Sound(Baseline, q, minted) BY <1>3, <1>4, <1>5, <2>1, SelectedSound
    <3> QED BY <1>4, <3>1
  <2>2. CASE SelectedId(Baseline, p, Subject[a]) = minted + 1
    <3>1. Sound(Baseline, q, minted + 1) BY <1>3, <1>4, <1>5, SelectedSound
    <3>2. Sound(Baseline, q, minted) BY <3>1 DEF Sound, Named
    <3> QED BY <1>4, <3>2
  <2> QED BY <2>1, <2>2
<1>7. Reachable(Baseline) /\ minted' \in Nat /\ minted <= minted' BY <1>4, <1>5 DEF Reachable
<1>8. JobInv' /\ Cut' = {} BY <1>4, NothingLeft
<1>9. process # Off /\ job.op # "migrate" /\ Cut = {} BY <1>4, JobRuns DEF HomeInv, Cut
<1>10. FilesInv' /\ MarksInv' /\ WorldsAreWhole' BY <1>4, <1>6, <1>7, <1>8, <1>9, SaveInv
<1> QED BY <1>8, <1>10 DEF HomeInv

LEMMA ContentStep ==
    ASSUME HomeInv, NEW i, NEW a, ImportContent(i, a) \/ ReplaceContent(i, a)
    PROVE  HomeInv'
<1>1. /\ Idle /\ process # Off /\ process' = process
      /\ job' = [op |-> "content", id |-> i, revision |-> a]
      /\ UNCHANGED <<profiles, dirs, minted, past>>
  BY RunNames DEF ImportContent, ReplaceContent, Between, ids
<1>2. job'.op = "content" BY <1>1
<1>3. JobInv' /\ Cut' = {} BY <1>1, <1>2, JobBegun
<1>4. job.op = "none" /\ Cut = {} BY <1>1, JobNames DEF Idle, Cut
<1> QED BY <1>1, <1>3, <1>4, StandStill DEF past

LEMMA IndexStep ==
    ASSUME HomeInv, IndexContent
    PROVE  HomeInv'
<1>1. /\ job.op = "content" /\ job' = NoJob
      /\ UNCHANGED <<profiles, dirs, minted, past>>
  BY DEF IndexContent, ids
<1>2. process # Off /\ job.op # "migrate" /\ Cut = {} BY <1>1, JobRuns DEF HomeInv, Cut
<1>3. JobInv' BY <1>1, NothingLeft
<1> QED BY <1>1, <1>2, <1>3, StandStill DEF past

\* Content, user content and sessions leave compositions and worlds alone.
LEMMA ElsewhereStep ==
    ASSUME HomeInv, Idle, process # Off, job' = job, UNCHANGED <<profiles, dirs, minted, past>>
    PROVE  HomeInv'
  BY IdleJob, StandStill DEF past

LEMMA SessionStep ==
    ASSUME HomeInv,
           \/ RunHost \/ Return \/ Exit
           \/ \E w \in Worlds : DeactivateWorld(w)
           \/ \E o \in DOMAIN process.live : Callback(o)
    PROVE  HomeInv'
<1>1. /\ Idle /\ process # Off /\ job' = job /\ UNCHANGED <<profiles, dirs, minted, past>>
  BY RunNames
     DEF RunHost, Return, Exit, DeactivateWorld, Callback, Between, InCommand, InCallback, files, ids
<1> QED BY <1>1, ElsewhereStep

LEMMA ImportStep ==
    ASSUME HomeInv, Idle, process # Off, NEW a, ImportArtifact(a)
    PROVE  HomeInv'
<1>1. job' = job /\ UNCHANGED <<profiles, dirs, minted, past>> BY DEF ImportArtifact, ids
<1> QED BY <1>1, ElsewhereStep

LEMMA RemoveContentStep ==
    ASSUME HomeInv, Idle, process # Off, NEW i, RemoveContent(i)
    PROVE  HomeInv'
<1>1. job' = job /\ UNCHANGED <<profiles, dirs, minted, past>> BY DEF RemoveContent, ids
<1> QED BY <1>1, ElsewhereStep

\* Uploads publish an artifact at most.
LEMMA UploadStep ==
    ASSUME HomeInv, AccessNext
    PROVE  HomeInv'
<1>1. UNCHANGED <<profiles, dirs, minted, job, process, broken, legacy>>
  BY DEF AccessNext, BeginUpload, AppendUpload, FinishUpload, CancelUpload, ImportResource,
         ReleaseResource, Rest, files, ids, past
<1> QED BY <1>1 DEF HomeInv, FilesInv, JobInv, MarksInv, WorldsAreWhole, Load, Cut, Marked

-----------------------------------------------------------------------------
(* The invariant holds.                                                    *)

\* A home of an older release has its baseline, and nothing else.
LEMMA LegacyStart ==
    ASSUME NEW acts, LegacyActs(acts), LegacyInit(acts)
    PROVE  HomeInv
<1> DEFINE G == UNION {{x} \X Asks[acts[x].artifact] : x \in DOMAIN acts}
           p == [Empty EXCEPT !.acts = acts, !.grants = G]
<1>1. p = [acts |-> acts, grants |-> G, preferred |-> <<>>, prefs |-> {}]
  <2>1. Empty = [acts |-> <<>>, grants |-> {}, preferred |-> <<>>, prefs |-> {}] BY DEF Empty
  <2>2. IsProfile(Empty) /\ Empty.preferred = <<>> /\ Empty.prefs = {} BY <2>1, ProfileFields
  <2> HIDE DEF G
  <2> QED BY <2>2, ProfileSelected
<1>2. IsProfile(p) /\ p.acts = acts /\ p.grants = G /\ p.preferred = <<>>
  <2> HIDE DEF p, G
  <2> QED BY <1>1, ProfileFields
<1>3. /\ profiles = [s \in {Baseline} |-> p] /\ dirs = <<>> /\ minted = 0 /\ job = NoJob
      /\ process = Off /\ broken = {} /\ legacy = {x \in DOMAIN acts : acts[x].marked}
  BY DEF LegacyInit
<1> HIDE DEF p
<1>4. \A g \in G : \E x \in DOMAIN acts : x = g[1] /\ g[2] \in Asks[acts[x].artifact] OBVIOUS
<1> HIDE DEF G
<1>5. \A x \in DOMAIN acts : /\ IsAct(acts[x]) /\ acts[x].id = x
                             /\ acts[x].artifact \in Extensions /\ Subject[acts[x].artifact] = x
  <2>1. SUFFICES ASSUME NEW x \in DOMAIN acts PROVE IsAct(acts[x]) /\ acts[x].id = x
    BY DEF LegacyActs
  <2>2. PICK m : m = acts[x].marked OBVIOUS
  <2>3. PICK o : o = acts[x].on OBVIOUS
  <2>4. acts[x] = [artifact |-> acts[x].artifact, id |-> x, on |-> o, marked |-> m]
    BY <2>2, <2>3, Zenon DEF LegacyActs
  <2>5. acts[x] = [artifact |-> acts[x].artifact, id |-> x, marked |-> m, on |-> o] BY <2>4
  <2> QED BY <2>5, ActFields
<1>6. DOMAIN <<>> = {} OBVIOUS
<1>7. Grounded(p) BY <1>2, <1>4, <1>5, <1>6 DEF Grounded
<1>8. Named(Baseline, p, 0) BY <1>2, <1>5 DEF Named
<1>9. Sound(Baseline, p, minted) BY <1>2, <1>3, <1>5, <1>7, <1>8 DEF Sound, LegacyActs
<1>10. DOMAIN profiles = {Baseline} /\ profiles[Baseline] = p /\ DOMAIN dirs = {} BY <1>3, <1>6
<1>11. FilesInv BY <1>3, <1>9, <1>10 DEF FilesInv, Scopes
<1>12. JobInv /\ Cut = {} BY <1>3, JobNames DEF JobInv, Cut
<1>13. Load(Baseline) = p BY <1>10 DEF Load
<1>14. MarksInv BY <1>2, <1>3, <1>13 DEF MarksInv, Marked
<1>15. WorldsAreWhole BY <1>10, HomeAssumption DEF WorldsAreWhole
<1> QED BY <1>11, <1>12, <1>14, <1>15 DEF HomeInv

LEMMA InitHome == HomeInit => HomeInv
<1>1. ASSUME Init PROVE HomeInv
  <2>1. DOMAIN <<>> = {} OBVIOUS
  <2>2. DOMAIN profiles = {} /\ DOMAIN dirs = {} BY <1>1, <2>1 DEF Init
  <2>3. FilesInv BY <1>1, <2>2 DEF Init, FilesInv
  <2>4. JobInv BY <1>1, JobNames DEF Init, JobInv
  <2>5. MarksInv BY <1>1 DEF Init, MarksInv
  <2>6. WorldsAreWhole BY <2>2 DEF WorldsAreWhole
  <2> QED BY <2>3, <2>4, <2>5, <2>6 DEF HomeInv
<1> QED BY <1>1, LegacyStart DEF HomeInit

LEMMA CallStep ==
    ASSUME HomeInv, NextCall
    PROVE  HomeInv'
<1>1. InCallback => Idle /\ process # Off BY RunNames DEF InCallback
<1>2. InCommand => Idle /\ process # Off BY RunNames DEF InCommand
<1>3. CASE GuestComposition \/ GuestScopedComposition
  BY <1>1, <1>3, CompositionStep DEF GuestComposition, GuestScopedComposition, Holds
<1>4. CASE GuestRuntimePolicy BY <1>1, <1>4, PolicyStep DEF GuestRuntimePolicy, Holds
<1>5. CASE GuestPreferences BY <1>1, <1>5, PreferenceStep DEF GuestPreferences
<1>6. CASE GuestWorldSessions
  BY <1>1, <1>6, CreateWorldStep, DeleteWorldStep, MetadataStep, ListStep
     DEF GuestWorldSessions, WorldSessionAccess, Holds
<1>7. CASE GuestImports BY <1>1, <1>7, ImportStep DEF GuestImports, StoreAccess, Holds
<1>8. CASE Application
  BY <1>2, <1>8, InstallStep, EnableStep, DefaultStep, PolicyStep, RemoveContentStep,
     CreateWorldStep, ListStep
     DEF Application
<1> QED BY <1>3, <1>4, <1>5, <1>6, <1>7, <1>8 DEF NextCall

LEMMA NextHome == ASSUME HomeInv, [HomeNext]_allVars PROVE HomeInv'
<1>1. CASE NextProcess
  BY <1>1, OpenStep, MigrateStep, FaultStep, SessionStep, ActivateStep DEF NextProcess
<1>2. CASE NextCall BY <1>2, CallStep
<1>3. CASE NextFiles
  BY <1>3, InstallSelectStep, CopyPolicyStep, CreateStepInv, CreateFailsStep, RemoveEntryStep,
     IndexStep, ContentStep
     DEF NextFiles
<1>4. CASE AccessNext BY <1>4, UploadStep
<1>5. CASE UNCHANGED allVars
  BY <1>5 DEF allVars, vars, files, HomeInv, FilesInv, JobInv, MarksInv, WorldsAreWhole, Load,
              Cut, Marked
<1> QED BY <1>1, <1>2, <1>3, <1>4, <1>5 DEF HomeNext, Next

\* Every reachable home is sound: its compositions, its worlds, the job under way
\* and the marks that a migration has still to replace.
THEOREM HomeInvHolds == HomeSpec => []HomeInv
<1>1. HomeInit => HomeInv BY InitHome
<1>2. HomeInv /\ [HomeNext]_allVars => HomeInv' BY NextHome
<1> QED BY <1>1, <1>2, PTL DEF HomeSpec

\* Approvals never outlive what they approve, whoever changed the compositions,
\* with how many writes and wherever they were cut off.
THEOREM PolicyStaysGrounded == HomeSpec => []PolicyIsGrounded
<1>1. HomeInv => PolicyIsGrounded
  BY DEF HomeInv, FilesInv, Sound, Grounded, PolicyIsGrounded
<1> QED BY <1>1, HomeInvHolds, PTL

\* An older home's defaults of new worlds are not lost in its migration.
THEOREM MarksSurvive == HomeSpec => []MarksOutliveMigration
<1>1. HomeInv => MarksOutliveMigration BY DEF HomeInv, MarksInv, MarksOutliveMigration
<1> QED BY <1>1, HomeInvHolds, PTL

\* A world that no crash and no failed removal touched is there with all its parts,
\* or not at all.
THEOREM WorldsStayWhole == HomeSpec => []WorldsAreWhole
<1>1. HomeInv => WorldsAreWhole BY DEF HomeInv
<1> QED BY <1>1, HomeInvHolds, PTL

-----------------------------------------------------------------------------
(* Sums over finite sets.                                                  *)

\* Every set of numbers has a least one: no sequence of intervals shrinks for ever.
LEMMA LeastNumber ==
    ASSUME NEW T, T \subseteq Nat, T # {}
    PROVE  \E n \in T : \A m \in T : n <= m
<1> DEFINE Intervals == {1 .. n : n \in T}
<1>1. IsWellFoundedOn(StrictSubsetOrdering(Nat), FiniteSubsetsOf(Nat))
  BY FS_StrictSubsetOrderingWellFounded
<1>2. Intervals \subseteq FiniteSubsetsOf(Nat)
  BY FS_Interval DEF FiniteSubsetsOf
<1>3. Intervals # {}
  OBVIOUS
<1> HIDE DEF Intervals
<1>4. PICK s \in Intervals : \A t \in Intervals : ~(<<t, s>> \in StrictSubsetOrdering(Nat))
  BY <1>1, <1>2, <1>3, WFMin
<1> USE DEF Intervals
<1>5. PICK n \in T : s = 1 .. n
  BY <1>4
<1>6. ASSUME NEW m \in T, m < n PROVE FALSE
  <2>1. 1 .. m \in Intervals
    OBVIOUS
  <2>2. <<1 .. m, s>> \in StrictSubsetOrdering(Nat)
    BY <1>5, <1>6 DEF StrictSubsetOrdering
  <2> QED BY <2>1, <2>2, <1>4
<1> QED BY <1>6

\* A set with 0 and the successor of each of its numbers has all of them.
LEMMA NumberInduction ==
    ASSUME NEW S, 0 \in S, \A n \in Nat : n \in S => n + 1 \in S
    PROVE  Nat \subseteq S
<1> SUFFICES ASSUME ~(Nat \subseteq S) PROVE FALSE
  OBVIOUS
<1>1. PICK n \in Nat \ S : \A m \in Nat \ S : n <= m
  BY LeastNumber
<1>2. n # 0 /\ n - 1 \in Nat /\ ~(n <= n - 1)
  OBVIOUS
<1> QED BY <1>1, <1>2


\* h is what the sum of g over a set is computed from: its sums over the subsets.
Sum(h, g, s) == IF s = {} THEN 0 ELSE LET x == CHOOSE y \in s : TRUE IN g[x] + h[s \ {x}]
Sums(h, g, S) == h = [s \in SUBSET S |-> Sum(h, g, s)]
IsSum(v, g, S) == \E h : Sums(h, g, S) /\ v = h[S]

LEMMA Smaller ==
    ASSUME NEW S, IsFiniteSet(S), NEW x \in S
    PROVE  /\ Cardinality(S) \in Nat /\ Cardinality(S) # 0
           /\ IsFiniteSet(S \ {x}) /\ Cardinality(S \ {x}) = Cardinality(S) - 1
  BY FS_CardinalityType, FS_EmptySet, FS_RemoveElement

LEMMA SumExists ==
    ASSUME NEW S, IsFiniteSet(S), NEW g
    PROVE  \E h : Sums(h, g, S)
<1> DEFINE Upto(h, n) == \A s \in SUBSET S : Cardinality(s) <= n => h[s] = Sum(h, g, s)
           N == {n \in Nat : \E h : Upto(h, n)}
<1>1. \A s \in SUBSET S : IsFiniteSet(s) /\ Cardinality(s) \in Nat /\ (Cardinality(s) = 0 <=> s = {})
  BY FS_Subset, FS_CardinalityType, FS_EmptySet
<1>2. 0 \in N
  <2>1. Upto([s \in SUBSET S |-> 0], 0) BY <1>1 DEF Sum
  <2> QED BY <2>1
<1>3. ASSUME NEW n \in Nat, n \in N PROVE n + 1 \in N
  <2>1. PICK h : Upto(h, n) BY <1>3
  <2> DEFINE k == [s \in SUBSET S |-> IF Cardinality(s) <= n THEN h[s] ELSE Sum(h, g, s)]
  <2>2. ASSUME NEW s \in SUBSET S, Cardinality(s) <= n + 1
        PROVE  k[s] = Sum(k, g, s)
    <3>1. k[s] = Sum(h, g, s) BY <2>1
    <3>2. CASE s = {} BY <3>1, <3>2 DEF Sum
    <3>3. CASE s # {}
      <4>1. PICK x \in s : x = CHOOSE y \in s : TRUE BY <3>3
      <4>2. Cardinality(s \ {x}) <= n /\ s \ {x} \in SUBSET S
        BY <1>1, <2>2, Smaller
      <4>3. k[s \ {x}] = h[s \ {x}] BY <4>2
      <4> HIDE DEF k
      <4> QED BY <3>1, <3>3, <4>1, <4>3 DEF Sum
    <3> QED BY <3>2, <3>3
  <2> HIDE DEF k
  <2>3. Upto(k, n + 1) BY <2>2
  <2> QED BY <2>3
<1> HIDE DEF N
<1>4. Nat \subseteq N BY <1>2, <1>3, NumberInduction
<1>5. PICK h : Upto(h, Cardinality(S)) BY <1>1, <1>4 DEF N
<1> DEFINE k == [s \in SUBSET S |-> h[s]]
<1>6. ASSUME NEW s \in SUBSET S PROVE k[s] = Sum(k, g, s)
  <2>1. k[s] = Sum(h, g, s) BY <1>5, <1>1, FS_Subset
  <2>2. CASE s = {} BY <2>1, <2>2 DEF Sum
  <2>3. CASE s # {} BY <2>1, <2>3 DEF Sum
  <2> QED BY <2>2, <2>3
<1> HIDE DEF k
<1>7. k = [s \in SUBSET S |-> k[s]] BY DEF k
<1>8. Sums(k, g, S) BY <1>6, <1>7 DEF Sums
<1> QED BY <1>8

LEMMA SumOfNone ==
    ASSUME NEW S, NEW g, NEW h, Sums(h, g, S)
    PROVE  h[{}] = 0
  BY DEF Sums, Sum

LEMMA SumNat ==
    ASSUME NEW S, IsFiniteSet(S), NEW g, NEW h, Sums(h, g, S), \A x \in S : g[x] \in Nat
    PROVE  \A s \in SUBSET S : h[s] \in Nat
<1> DEFINE N == {n \in Nat : \A s \in SUBSET S : Cardinality(s) = n => h[s] \in Nat}
<1>1. \A s \in SUBSET S : IsFiniteSet(s) /\ Cardinality(s) \in Nat /\ (Cardinality(s) = 0 <=> s = {})
  BY FS_Subset, FS_CardinalityType, FS_EmptySet
<1>2. 0 \in N BY <1>1, SumOfNone
<1>3. ASSUME NEW n \in Nat, n \in N PROVE n + 1 \in N
  <2>1. SUFFICES ASSUME NEW s \in SUBSET S, Cardinality(s) = n + 1 PROVE h[s] \in Nat
    OBVIOUS
  <2>2. s # {} BY <1>1, <2>1
  <2>3. PICK y \in s : y = CHOOSE x \in s : TRUE BY <2>2
  <2>4. h[s] = g[y] + h[s \ {y}] BY <2>2, <2>3 DEF Sums, Sum
  <2>5. Cardinality(s \ {y}) = n /\ s \ {y} \in SUBSET S BY <1>1, <2>1, Smaller
  <2> QED BY <1>3, <2>4, <2>5
<1> HIDE DEF N
<1>4. Nat \subseteq N BY <1>2, <1>3, NumberInduction
<1> QED BY <1>1, <1>4 DEF N

\* Any element can be the one that is added last.
LEMMA SumStep ==
    ASSUME NEW S, IsFiniteSet(S), NEW g, NEW h, Sums(h, g, S), \A x \in S : g[x] \in Nat
    PROVE  \A s \in SUBSET S : \A x \in s : h[s] = g[x] + h[s \ {x}]
<1> DEFINE N == {n \in Nat : \A s \in SUBSET S : Cardinality(s) = n =>
                     \A x \in s : h[s] = g[x] + h[s \ {x}]}
<1>1. \A s \in SUBSET S : IsFiniteSet(s) /\ Cardinality(s) \in Nat /\ (Cardinality(s) = 0 <=> s = {})
  BY FS_Subset, FS_CardinalityType, FS_EmptySet
<1>2. 0 \in N BY <1>1
<1>3. ASSUME NEW n \in Nat, n \in N PROVE n + 1 \in N
  <2>1. SUFFICES ASSUME NEW s \in SUBSET S, Cardinality(s) = n + 1, NEW x \in s
                 PROVE  h[s] = g[x] + h[s \ {x}]
    OBVIOUS
  <2>2. PICK y \in s : y = CHOOSE z \in s : TRUE OBVIOUS
  <2>3. h[s] = g[y] + h[s \ {y}] BY <2>2 DEF Sums, Sum
  <2>4. CASE x = y BY <2>3, <2>4
  <2>5. CASE x # y
    <3>1. \A z \in s : Cardinality(s \ {z}) = n /\ s \ {z} \in SUBSET S BY <1>1, <2>1, Smaller
    <3>2. h[s \ {y}] = g[x] + h[(s \ {y}) \ {x}] BY <1>3, <2>5, <3>1
    <3>3. h[s \ {x}] = g[y] + h[(s \ {x}) \ {y}] BY <1>3, <2>5, <3>1
    <3>4. PICK r \in SUBSET S : r = (s \ {y}) \ {x} OBVIOUS
    <3>5. (s \ {x}) \ {y} = r BY <3>4
    <3>6. h[r] \in Nat /\ g[x] \in Nat /\ g[y] \in Nat BY SumNat
    <3> QED BY <2>3, <3>2, <3>3, <3>4, <3>5, <3>6
  <2> QED BY <2>4, <2>5
<1> HIDE DEF N
<1>4. Nat \subseteq N BY <1>2, <1>3, NumberInduction
<1> QED BY <1>1, <1>4 DEF N

\* Sums of the same numbers are equal, however they are computed.
LEMMA SumSame ==
    ASSUME NEW S, NEW T, NEW g, NEW k, NEW h, NEW f, Sums(h, g, S), Sums(f, k, T),
           NEW s \in SUBSET S, s \in SUBSET T, IsFiniteSet(s), \A x \in s : g[x] = k[x]
    PROVE  h[s] = f[s]
<1> DEFINE N == {n \in Nat : \A t \in SUBSET s : Cardinality(t) = n => h[t] = f[t]}
<1>1. \A t \in SUBSET s : IsFiniteSet(t) /\ Cardinality(t) \in Nat /\ (Cardinality(t) = 0 <=> t = {})
  BY FS_Subset, FS_CardinalityType, FS_EmptySet
<1>2. 0 \in N BY <1>1, SumOfNone
<1>3. ASSUME NEW n \in Nat, n \in N PROVE n + 1 \in N
  <2>1. SUFFICES ASSUME NEW t \in SUBSET s, Cardinality(t) = n + 1 PROVE h[t] = f[t]
    OBVIOUS
  <2>2. t # {} BY <1>1, <2>1
  <2>3. PICK y \in t : y = CHOOSE z \in t : TRUE BY <2>2
  <2>4. h[t] = g[y] + h[t \ {y}] BY <2>2, <2>3 DEF Sums, Sum
  <2>5. f[t] = k[y] + f[t \ {y}] BY <2>2, <2>3 DEF Sums, Sum
  <2>6. Cardinality(t \ {y}) = n /\ t \ {y} \in SUBSET s BY <1>1, <2>1, Smaller
  <2> QED BY <1>3, <2>4, <2>5, <2>6
<1> HIDE DEF N
<1>4. Nat \subseteq N BY <1>2, <1>3, NumberInduction
<1> QED BY <1>1, <1>4 DEF N

LEMMA SumFacts ==
    ASSUME NEW S, IsFiniteSet(S), NEW g, \A x \in S : g[x] \in Nat, NEW v, IsSum(v, g, S)
    PROVE  v \in Nat /\ (S = {} => v = 0)
  BY SumNat, SumOfNone DEF IsSum

LEMMA SumSplit ==
    ASSUME NEW S, IsFiniteSet(S), NEW g, \A x \in S : g[x] \in Nat, NEW v, IsSum(v, g, S),
           NEW x \in S, NEW T, T = S \ {x}, NEW k, NEW w, IsSum(w, k, T), \A y \in T : k[y] = g[y]
    PROVE  v = g[x] + w
<1>1. PICK h : Sums(h, g, S) /\ v = h[S] BY DEF IsSum
<1>2. PICK f : Sums(f, k, T) /\ w = f[T] BY DEF IsSum
<1>3. v = g[x] + h[T] BY <1>1, SumStep
<1>4. IsFiniteSet(T) BY FS_Subset
<1>5. h[T] = f[T] BY <1>1, <1>2, <1>4, SumSame
<1> QED BY <1>2, <1>3, <1>5

-----------------------------------------------------------------------------
(* The sizes of uploads, and the bytes of the pool.                        *)

LEMMA SizesAreSums ==
    ASSUME NEW S, IsFiniteSet(S)
    PROVE  IsSum(Sizes(S), [u \in S |-> u.size], S)
<1> DEFINE g == [u \in S |-> u.size]
           Is(h) == h = [s \in SUBSET S |-> IF s = {} THEN 0
                                            ELSE LET x == CHOOSE y \in s : TRUE IN x.size + h[s \ {x}]]
<1>1. Sizes(S) = (CHOOSE h : Is(h))[S] BY DEF Sizes, MapThenSumSet, MapThenFoldSet
<1>2. \A h : Is(h) <=> Sums(h, g, S)
  <2>1. SUFFICES ASSUME NEW h PROVE Is(h) <=> Sums(h, g, S)
    OBVIOUS
  <2>2. ASSUME NEW s \in SUBSET S
        PROVE  (IF s = {} THEN 0 ELSE LET x == CHOOSE y \in s : TRUE IN x.size + h[s \ {x}]) = Sum(h, g, s)
    BY DEF Sum
  <2> QED BY <2>2 DEF Sums
<1>3. \E h : Sums(h, g, S)
  <2> HIDE DEF g
  <2> QED BY SumExists
<1> HIDE DEF Is
<1>4. Is(CHOOSE h : Is(h)) BY <1>2, <1>3
<1> QED BY <1>1, <1>2, <1>4 DEF IsSum

LEMMA BytesAreSums ==
    ASSUME NEW p, IsFiniteSet(DOMAIN p)
    PROVE  IsSum(Bytes(p), p, DOMAIN p)
<1> DEFINE S == DOMAIN p
           Is(h) == h = [s \in SUBSET S |-> IF s = {} THEN 0
                                            ELSE LET x == CHOOSE y \in s : TRUE IN p[x] + h[s \ {x}]]
<1>1. Bytes(p) = (CHOOSE h : Is(h))[S] BY DEF Bytes, MapThenSumSet, MapThenFoldSet
<1>2. \A h : Is(h) <=> Sums(h, p, S) BY DEF Sums, Sum
<1>3. \E h : Sums(h, p, S) BY SumExists
<1> HIDE DEF Is
<1>4. Is(CHOOSE h : Is(h)) BY <1>2, <1>3
<1> QED BY <1>1, <1>2, <1>4 DEF IsSum

LEMMA SizesFacts ==
    ASSUME NEW S, IsFiniteSet(S), \A u \in S : u.size \in Nat
    PROVE  /\ Sizes(S) \in Nat
           /\ S = {} => Sizes(S) = 0
           /\ \A u \in S : Sizes(S) = u.size + Sizes(S \ {u})
<1> DEFINE g == [u \in S |-> u.size]
<1>1. \A u \in S : g[u] = u.size /\ g[u] \in Nat OBVIOUS
<1>2. IsSum(Sizes(S), g, S) BY SizesAreSums
<1> HIDE DEF g
<1>3. Sizes(S) \in Nat /\ (S = {} => Sizes(S) = 0) BY <1>1, <1>2, SumFacts
<1>4. ASSUME NEW u \in S PROVE Sizes(S) = u.size + Sizes(S \ {u})
  <2> DEFINE k == [v \in S \ {u} |-> v.size]
  <2>1. IsFiniteSet(S \ {u}) BY FS_Subset
  <2>2. IsSum(Sizes(S \ {u}), k, S \ {u}) BY <2>1, SizesAreSums
  <2>3. \A v \in S \ {u} : k[v] = g[v] BY <1>1
  <2> HIDE DEF k
  <2>4. PICK v : v = Sizes(S) OBVIOUS
  <2>5. PICK T : T = S \ {u} OBVIOUS
  <2>6. PICK w : w = Sizes(T) OBVIOUS
  <2>7. IsSum(w, k, T) BY <2>2, <2>5, <2>6
  <2>8. \A y \in T : k[y] = g[y] BY <2>3, <2>5
  <2>9. v = g[u] + w BY <1>1, <1>2, <2>4, <2>5, <2>7, <2>8, SumSplit
  <2> QED BY <1>1, <2>4, <2>5, <2>6, <2>9
<1> QED BY <1>3, <1>4

\* Fewer uploads are no bigger.
LEMMA SizesMonotone ==
    ASSUME NEW S, IsFiniteSet(S), \A u \in S : u.size \in Nat, NEW T \in SUBSET S
    PROVE  Sizes(T) <= Sizes(S)
<1> DEFINE N == {n \in Nat : \A s \in SUBSET S :
                     Cardinality(s) = n => \A t \in SUBSET s : Sizes(t) <= Sizes(s)}
<1>1. \A s \in SUBSET S : /\ IsFiniteSet(s) /\ Cardinality(s) \in Nat /\ (Cardinality(s) = 0 <=> s = {})
                          /\ Sizes(s) \in Nat /\ \A u \in s : Sizes(s) = u.size + Sizes(s \ {u})
  BY FS_Subset, FS_CardinalityType, FS_EmptySet, SizesFacts
<1>2. 0 \in N
  <2>1. SUFFICES ASSUME NEW s \in SUBSET S, Cardinality(s) = 0, NEW t \in SUBSET s
                 PROVE  Sizes(t) <= Sizes(s)
    OBVIOUS
  <2>2. s = t /\ Sizes(s) \in Nat BY <1>1, <2>1
  <2> QED BY <2>2
<1>3. ASSUME NEW n \in Nat, n \in N PROVE n + 1 \in N
  <2>1. SUFFICES ASSUME NEW s \in SUBSET S, Cardinality(s) = n + 1, NEW t \in SUBSET s
                 PROVE  Sizes(t) <= Sizes(s)
    OBVIOUS
  <2>2. CASE t = s BY <1>1, <2>2
  <2>3. CASE t # s
    <3>1. PICK u \in s : u \notin t BY <2>3
    <3>2. t \in SUBSET (s \ {u}) /\ s \ {u} \in SUBSET S BY <3>1
    <3>3. Cardinality(s \ {u}) = n
      <4>1. IsFiniteSet(s) BY <1>1
      <4>2. Cardinality(s \ {u}) = Cardinality(s) - 1 BY <4>1, Smaller
      <4> QED BY <2>1, <4>2
    <3>4. Sizes(t) <= Sizes(s \ {u}) BY <1>3, <3>2, <3>3
    <3>5. Sizes(s) = u.size + Sizes(s \ {u}) /\ Sizes(s \ {u}) \in Nat /\ Sizes(t) \in Nat
      BY <1>1, <3>2
    <3> QED BY <3>4, <3>5
  <2> QED BY <2>2, <2>3
<1> HIDE DEF N
<1>4. Nat \subseteq N BY <1>2, <1>3, NumberInduction
<1> QED BY <1>1, <1>4 DEF N

LEMMA SizesAdded ==
    ASSUME NEW S, IsFiniteSet(S), \A u \in S : u.size \in Nat, NEW v, v.size \in Nat
    PROVE  Sizes(S \cup {v}) <= Sizes(S) + v.size
<1> DEFINE T == S \cup {v}
<1>1. IsFiniteSet(T) /\ \A u \in T : u.size \in Nat BY FS_AddElement
<1>2. Sizes(T) = v.size + Sizes(T \ {v}) /\ T \ {v} \in SUBSET S BY <1>1, SizesFacts
<1>3. Sizes(T \ {v}) <= Sizes(S) BY <1>2, SizesMonotone
<1>4. Sizes(S) \in Nat /\ Sizes(T \ {v}) \in Nat BY <1>1, <1>2, FS_Subset, SizesFacts
<1> QED BY <1>2, <1>3, <1>4

\* What is put into the pool is counted once, and what is taken out no more.
LEMMA BytesPut ==
    ASSUME NEW p, IsFiniteSet(DOMAIN p), \A x \in DOMAIN p : p[x] \in Nat,
           NEW x, x \notin DOMAIN p, NEW v \in Nat
    PROVE  Bytes(Put(p, x, v)) = Bytes(p) + v /\ Bytes(p) \in Nat
<1> DEFINE q == Put(p, x, v)
<1>1. DOMAIN q = DOMAIN p \cup {x} /\ q[x] = v /\ \A y \in DOMAIN p : q[y] = p[y] BY DEF Put
<1> HIDE DEF q
<1>2. IsFiniteSet(DOMAIN q) /\ \A y \in DOMAIN q : q[y] \in Nat BY <1>1, FS_AddElement
<1>3. DOMAIN q \ {x} = DOMAIN p BY <1>1
<1>4. IsSum(Bytes(q), q, DOMAIN q) /\ IsSum(Bytes(p), p, DOMAIN q \ {x})
  BY <1>2, <1>3, BytesAreSums
<1>5. Bytes(q) = q[x] + Bytes(p)
  BY <1>1, <1>2, <1>3, <1>4, SumSplit
<1>6. Bytes(p) \in Nat BY BytesAreSums, SumFacts
<1> QED BY <1>1, <1>5, <1>6 DEF q

LEMMA BytesWithout ==
    ASSUME NEW p, IsFiniteSet(DOMAIN p), \A x \in DOMAIN p : p[x] \in Nat, NEW x \in DOMAIN p
    PROVE  /\ Bytes(Without(p, {x})) = Bytes(p) - p[x]
           /\ Bytes(Without(p, {x})) \in Nat /\ p[x] \in Nat
<1> DEFINE q == Without(p, {x})
<1>1. DOMAIN q = DOMAIN p \ {x} /\ \A y \in DOMAIN q : q[y] = p[y] BY DEF Without
<1> HIDE DEF q
<1>2. IsFiniteSet(DOMAIN q) /\ \A y \in DOMAIN q : q[y] \in Nat BY <1>1, FS_RemoveElement
<1>3. IsSum(Bytes(p), p, DOMAIN p) /\ IsSum(Bytes(q), q, DOMAIN p \ {x})
  BY <1>1, <1>2, BytesAreSums
<1>4. Bytes(p) = p[x] + Bytes(q) BY <1>1, <1>3, SumSplit
<1>5. Bytes(q) \in Nat BY <1>1, <1>2, <1>3, SumFacts
<1> QED BY <1>4, <1>5 DEF q

LEMMA BytesOfNone == Bytes(<<>>) = 0
<1>1. DOMAIN <<>> = {} OBVIOUS
<1>2. IsFiniteSet({}) BY FS_EmptySet
<1>3. PICK p : p = <<>> OBVIOUS
<1>4. DOMAIN p = {} BY <1>1, <1>3
<1>5. IsSum(Bytes(p), p, {}) BY <1>2, <1>4, BytesAreSums
<1>6. Bytes(p) = 0 BY <1>2, <1>5, SumFacts
<1> QED BY <1>3, <1>6

-----------------------------------------------------------------------------
(* What components hold.                                                   *)

IsUpload(u) ==
    u = [store |-> u.store, kind |-> u.kind, handle |-> u.handle, size |-> u.size, got |-> u.got]

HeldOf(o, kind) == {u \in uploads : u.store = o /\ u.kind = kind}

UploadsInv ==
    /\ IsFiniteSet(uploads)
    /\ \A u \in uploads : /\ IsUpload(u) /\ u.kind \in Kinds
                          /\ u.size \in Nat /\ u.got \in Nat /\ u.got <= u.size
    /\ \A o \in {u.store : u \in uploads}, kind \in Kinds : Sizes(HeldOf(o, kind)) <= UploadLimit

PoolInv ==
    /\ handed \in Nat
    /\ \A id \in DOMAIN pool : id \in 1 .. handed /\ pool[id] \in Nat
    /\ total = Bytes(pool) /\ total <= PoolLimit

HeldInv == UploadsInv /\ PoolInv

LEMMA HeldFacts ==
    ASSUME UploadsInv, NEW o, NEW kind \in Kinds
    PROVE  /\ IsFiniteSet(HeldOf(o, kind)) /\ \A u \in HeldOf(o, kind) : u.size \in Nat
           /\ Sizes(HeldOf(o, kind)) \in Nat /\ Sizes(HeldOf(o, kind)) <= UploadLimit
<1>1. IsFiniteSet(HeldOf(o, kind)) BY FS_Subset DEF UploadsInv, HeldOf
<1>2. \A u \in HeldOf(o, kind) : u.size \in Nat BY DEF UploadsInv, HeldOf
<1>3. Sizes(HeldOf(o, kind)) \in Nat BY <1>1, <1>2, SizesFacts
<1>4. CASE HeldOf(o, kind) = {}
  <2>1. Sizes(HeldOf(o, kind)) = 0 BY <1>1, <1>2, <1>4, SizesFacts
  <2> QED BY <1>1, <1>2, <2>1, UploadAssumption
<1>5. CASE HeldOf(o, kind) # {}
  <2>1. \E u \in uploads : u.store = o BY <1>5 DEF HeldOf
  <2> QED BY <1>1, <1>2, <1>3, <2>1 DEF UploadsInv
<1> QED BY <1>4, <1>5

LEMMA UploadFields ==
    ASSUME NEW o, NEW k, NEW h, NEW z, NEW g, NEW u,
           u = [store |-> o, kind |-> k, handle |-> h, size |-> z, got |-> g]
    PROVE  IsUpload(u) /\ u.store = o /\ u.kind = k /\ u.handle = h /\ u.size = z /\ u.got = g
  BY DEF IsUpload

LEMMA PoolFinite ==
    ASSUME PoolInv
    PROVE  IsFiniteSet(DOMAIN pool) /\ \A id \in DOMAIN pool : pool[id] \in Nat
<1>1. IsFiniteSet(1 .. handed) BY FS_Interval DEF PoolInv
<1>2. DOMAIN pool \in SUBSET (1 .. handed) BY DEF PoolInv
<1> QED BY <1>1, <1>2, FS_Subset DEF PoolInv

\* Uploads that are dropped, by the component or with its composition.
LEMMA UploadsDropped ==
    ASSUME UploadsInv, uploads' \subseteq uploads
    PROVE  UploadsInv'
<1>1. IsFiniteSet(uploads') BY FS_Subset DEF UploadsInv
<1>2. ASSUME NEW o \in {u.store : u \in uploads'}, NEW kind \in Kinds
      PROVE  Sizes(HeldOf(o, kind)') <= UploadLimit
  <2>1. PICK S : S = HeldOf(o, kind) OBVIOUS
  <2>2. PICK T : T = HeldOf(o, kind)' OBVIOUS
  <2>3. T \in SUBSET S BY <2>1, <2>2 DEF HeldOf
  <2>4. IsFiniteSet(S) /\ (\A u \in S : u.size \in Nat) /\ Sizes(S) \in Nat /\ Sizes(S) <= UploadLimit
    BY <2>1, HeldFacts
  <2>5. Sizes(T) <= Sizes(S) BY <2>3, <2>4, SizesMonotone
  <2>6. Sizes(T) \in Nat BY <2>3, <2>4, FS_Subset, SizesFacts
  <2> QED BY <2>2, <2>4, <2>5, <2>6, UploadAssumption
<1>3. \A u \in uploads' : /\ IsUpload(u) /\ u.kind \in Kinds
                          /\ u.size \in Nat /\ u.got \in Nat /\ u.got <= u.size
  BY DEF UploadsInv
<1> QED BY <1>1, <1>2, <1>3 DEF UploadsInv

LEMMA BeginUploadStep ==
    ASSUME HeldInv, NEW kind \in Kinds, NEW size, BeginUpload(kind, size)
    PROVE  HeldInv'
<1>1. PICK o : o = Store(process.callback) OBVIOUS
<1>2. PICK r : r = [store |-> o, kind |-> kind, handle |-> handed + 1, size |-> size, got |-> 0]
  OBVIOUS
<1>3. /\ size \in 1..UploadLimit /\ Reserved(kind) + size <= UploadLimit
      /\ handed' = handed + 1 /\ uploads' = uploads \cup {r} /\ pool' = pool /\ total' = total
  BY <1>1, <1>2 DEF BeginUpload
<1>4. size \in Nat BY <1>3, UploadAssumption
<1>5. IsUpload(r) /\ r.store = o /\ r.kind = kind /\ r.size = size /\ r.got = 0 BY <1>2, UploadFields
<1>6. UploadsInv BY DEF HeldInv
<1>7. IsFiniteSet(uploads') BY <1>3, <1>6, FS_AddElement DEF UploadsInv
<1>8. \A u \in uploads' : /\ IsUpload(u) /\ u.kind \in Kinds
                          /\ u.size \in Nat /\ u.got \in Nat /\ u.got <= u.size
  BY <1>3, <1>4, <1>5, <1>6 DEF UploadsInv
<1>9. ASSUME NEW p \in {u.store : u \in uploads'}, NEW k \in Kinds
      PROVE  Sizes(HeldOf(p, k)') <= UploadLimit
  <2>1. CASE p = o /\ k = kind
    <3>1. PICK S : S = HeldOf(o, kind) OBVIOUS
    <3>2. HeldOf(p, k)' = S \cup {r} BY <1>3, <1>5, <2>1, <3>1 DEF HeldOf
    <3>3. Reserved(kind) = Sizes(S) BY <1>1, <3>1 DEF Reserved, Mine, HeldOf
    <3>4. IsFiniteSet(S) /\ (\A u \in S : u.size \in Nat) /\ Sizes(S) \in Nat
      BY <1>6, <3>1, HeldFacts
    <3>5. Sizes(S \cup {r}) <= Sizes(S) + r.size BY <1>4, <1>5, <3>4, SizesAdded
    <3>6. Sizes(S \cup {r}) \in Nat
      <4>1. PICK T : T = S \cup {r} OBVIOUS
      <4>2. IsFiniteSet(T) /\ \A u \in T : u.size \in Nat BY <1>4, <1>5, <3>4, <4>1, FS_AddElement
      <4> QED BY <4>1, <4>2, SizesFacts
    <3> QED BY <1>3, <1>4, <1>5, <3>2, <3>3, <3>4, <3>5, <3>6, UploadAssumption
  <2>2. CASE ~(p = o /\ k = kind)
    <3>1. HeldOf(p, k)' = HeldOf(p, k) BY <1>3, <1>5, <2>2 DEF HeldOf
    <3> QED BY <1>6, <3>1, HeldFacts
  <2> QED BY <2>1, <2>2
<1>10. UploadsInv' BY <1>7, <1>8, <1>9 DEF UploadsInv
<1>11. PoolInv' BY <1>3 DEF HeldInv, PoolInv
<1> QED BY <1>10, <1>11 DEF HeldInv

LEMMA AppendUploadStep ==
    ASSUME HeldInv, NEW u \in uploads, AppendUpload(u)
    PROVE  HeldInv'
<1>1. UploadsInv BY DEF HeldInv
<1>2. /\ IsUpload(u) /\ u.kind \in Kinds
      /\ u.size \in Nat /\ u.got \in Nat /\ u.got <= u.size
  BY <1>1 DEF UploadsInv
<1>3. PICK v : v = [u EXCEPT !.got = @ + 1] OBVIOUS
<1>4. /\ u.got < u.size /\ uploads' = (uploads \ {u}) \cup {v}
      /\ handed' = handed /\ pool' = pool /\ total' = total
  BY <1>3 DEF AppendUpload
<1>5. /\ IsUpload(v) /\ v.store = u.store /\ v.kind = u.kind
      /\ v.size = u.size /\ v.got = u.got + 1
  <2>1. PICK g : g = u.got + 1 OBVIOUS
  <2>2. v = [store |-> u.store, kind |-> u.kind, handle |-> u.handle, size |-> u.size, got |-> g]
    BY <1>2, <1>3, <2>1 DEF IsUpload
  <2> QED BY <2>1, <2>2, UploadFields
<1>6. IsFiniteSet(uploads')
  <2>1. IsFiniteSet(uploads \ {u}) BY <1>1, FS_RemoveElement DEF UploadsInv
  <2> QED BY <1>4, <2>1, FS_AddElement
<1>7. \A w \in uploads' : /\ IsUpload(w) /\ w.kind \in Kinds
                          /\ w.size \in Nat /\ w.got \in Nat /\ w.got <= w.size
  BY <1>1, <1>2, <1>4, <1>5 DEF UploadsInv
<1>8. ASSUME NEW p \in {w.store : w \in uploads'}, NEW k \in Kinds
      PROVE  Sizes(HeldOf(p, k)') <= UploadLimit
  <2>1. PICK S : S = HeldOf(p, k) OBVIOUS
  <2>2. IsFiniteSet(S) /\ (\A w \in S : w.size \in Nat) /\ Sizes(S) \in Nat /\ Sizes(S) <= UploadLimit
    BY <1>1, <2>1, HeldFacts
  <2>3. CASE p = u.store /\ k = u.kind
    <3>1. PICK T : T = S \ {u} OBVIOUS
    <3>2. u \in S BY <2>1, <2>3 DEF HeldOf
    <3>3. HeldOf(p, k)' = T \cup {v} BY <1>4, <1>5, <2>1, <2>3, <3>1 DEF HeldOf
    <3>4. IsFiniteSet(T) /\ (\A w \in T : w.size \in Nat) BY <2>2, <3>1, FS_RemoveElement
    <3>5. Sizes(T \cup {v}) <= Sizes(T) + v.size BY <1>2, <1>5, <3>4, SizesAdded
    <3>6. Sizes(S) = u.size + Sizes(T) BY <2>2, <3>1, <3>2, SizesFacts
    <3>7. Sizes(T) \in Nat BY <3>4, SizesFacts
    <3>8. Sizes(T \cup {v}) \in Nat
      <4>1. PICK U : U = T \cup {v} OBVIOUS
      <4>2. IsFiniteSet(U) /\ \A w \in U : w.size \in Nat
        BY <1>2, <1>5, <3>4, <4>1, FS_AddElement
      <4> QED BY <4>1, <4>2, SizesFacts
    <3> QED BY <1>2, <1>5, <2>2, <3>3, <3>5, <3>6, <3>7, <3>8, UploadAssumption
  <2>4. CASE ~(p = u.store /\ k = u.kind)
    <3>1. HeldOf(p, k)' = S BY <1>4, <1>5, <2>1, <2>4 DEF HeldOf
    <3> QED BY <2>2, <3>1
  <2> QED BY <2>3, <2>4
<1>9. UploadsInv' BY <1>6, <1>7, <1>8 DEF UploadsInv
<1>10. PoolInv' BY <1>4 DEF HeldInv, PoolInv
<1> QED BY <1>9, <1>10 DEF HeldInv

LEMMA PooledStep ==
    ASSUME PoolInv, NEW size \in Nat, Fits(size), Pooled(size)
    PROVE  PoolInv'
<1>1. /\ pool' = Put(pool, handed + 1, size) /\ total' = total + size /\ handed' = handed + 1
      /\ total + size <= PoolLimit
  BY DEF Pooled, Fits
<1>2. /\ IsFiniteSet(DOMAIN pool) /\ \A id \in DOMAIN pool : pool[id] \in Nat
      /\ handed \in Nat /\ \A id \in DOMAIN pool : id \in 1 .. handed
  BY PoolFinite DEF PoolInv
<1>3. handed + 1 \notin DOMAIN pool BY <1>2
<1>4. PICK q : q = Put(pool, handed + 1, size) OBVIOUS
<1>5. Bytes(q) = Bytes(pool) + size BY <1>2, <1>3, <1>4, BytesPut
<1>6. /\ DOMAIN q = DOMAIN pool \cup {handed + 1} /\ q[handed + 1] = size
      /\ \A id \in DOMAIN pool : q[id] = pool[id]
  BY <1>3, <1>4 DEF Put
<1>7. \A id \in DOMAIN q : id \in 1 .. handed + 1 /\ q[id] \in Nat BY <1>2, <1>6
<1> QED BY <1>1, <1>2, <1>4, <1>5, <1>7 DEF PoolInv

LEMMA ReleaseStep ==
    ASSUME PoolInv, NEW id, ReleaseResource(id)
    PROVE  PoolInv'
<1>1. /\ id \in DOMAIN pool /\ pool' = Without(pool, {id}) /\ total' = total - pool[id]
      /\ handed' = handed
  BY DEF ReleaseResource, Left
<1>2. IsFiniteSet(DOMAIN pool) /\ \A x \in DOMAIN pool : pool[x] \in Nat BY PoolFinite
<1>3. PICK q : q = Without(pool, {id}) OBVIOUS
<1>4. Bytes(q) = Bytes(pool) - pool[id] /\ Bytes(q) \in Nat /\ pool[id] \in Nat
  BY <1>1, <1>2, <1>3, BytesWithout
<1>5. DOMAIN q = DOMAIN pool \ {id} /\ \A x \in DOMAIN q : q[x] = pool[x] BY <1>3 DEF Without
<1>6. total = Bytes(pool) /\ total <= PoolLimit BY DEF PoolInv
<1>7. Bytes(pool) \in Nat BY <1>2, BytesAreSums, SumFacts
<1>8. total' = Bytes(q) /\ total' <= PoolLimit BY <1>1, <1>4, <1>6, <1>7, UploadAssumption
<1> QED BY <1>1, <1>3, <1>5, <1>8 DEF PoolInv

LEMMA PoolEmpty ==
    ASSUME handed' = 0, pool' = <<>>, total' = 0
    PROVE  PoolInv'
<1>1. DOMAIN <<>> = {} OBVIOUS
<1> QED BY <1>1, BytesOfNone, UploadAssumption DEF PoolInv

LEMMA InitHeld == AccessInit => HeldInv
<1>1. IsFiniteSet({}) BY FS_EmptySet
<1>2. DOMAIN <<>> = {} OBVIOUS
<1>3. AccessInit => UploadsInv BY <1>1 DEF AccessInit, UploadsInv
<1>4. AccessInit => PoolInv BY <1>2, BytesOfNone, UploadAssumption DEF AccessInit, PoolInv
<1> QED BY <1>3, <1>4 DEF HeldInv

LEMMA NextHeld == ASSUME HeldInv, [HomeNext]_allVars PROVE HeldInv'
<1>1. UploadsInv /\ PoolInv BY DEF HeldInv
<1>2. CASE Forgotten
  <2>1. CASE process'.run # "session"
    <3>1. uploads' = {} /\ handed' = 0 /\ pool' = <<>> /\ total' = 0 BY <1>2, <2>1 DEF Forgotten
    <3>2. UploadsInv' BY <1>1, <3>1, UploadsDropped
    <3> QED BY <3>1, <3>2, PoolEmpty DEF HeldInv
  <2>2. CASE process'.run = "session"
    <3>1. uploads' \subseteq uploads /\ UNCHANGED <<handed, pool, total>>
      BY <1>2, <2>2 DEF Forgotten
    <3>2. PoolInv' BY <1>1, <3>1 DEF PoolInv
    <3> QED BY <1>1, <3>1, <3>2, UploadsDropped DEF HeldInv
  <2> QED BY <2>1, <2>2
<1>3. ASSUME NEW kind \in Kinds, NEW size, BeginUpload(kind, size) PROVE HeldInv'
  BY <1>3, BeginUploadStep
<1>4. ASSUME NEW u \in uploads, AppendUpload(u) PROVE HeldInv'
  BY <1>4, AppendUploadStep
<1>5. ASSUME NEW u \in uploads, FinishUpload(u) PROVE HeldInv'
  <2>1. uploads' \subseteq uploads BY <1>5 DEF FinishUpload
  <2>2. UploadsInv' BY <1>1, <2>1, UploadsDropped
  <2>3. u.size \in Nat BY <1>1 DEF UploadsInv
  <2>4. (Fits(u.size) /\ Pooled(u.size)) \/ UNCHANGED <<handed, pool, total>>
    BY <1>5 DEF FinishUpload
  <2>5. CASE Fits(u.size) /\ Pooled(u.size) BY <1>1, <2>2, <2>3, <2>5, PooledStep DEF HeldInv
  <2>6. CASE UNCHANGED <<handed, pool, total>> BY <1>1, <2>2, <2>6 DEF HeldInv, PoolInv
  <2> QED BY <2>4, <2>5, <2>6
<1>6. ASSUME NEW u \in uploads, CancelUpload(u) PROVE HeldInv'
  <2>1. uploads' \subseteq uploads /\ UNCHANGED <<handed, pool, total>> BY <1>6 DEF CancelUpload
  <2>2. PoolInv' BY <1>1, <2>1 DEF PoolInv
  <2> QED BY <1>1, <2>1, <2>2, UploadsDropped DEF HeldInv
<1>7. ASSUME NEW size \in 1..UploadLimit, ImportResource(size) PROVE HeldInv'
  <2>1. uploads' = uploads /\ Fits(size) /\ Pooled(size) BY <1>7 DEF ImportResource
  <2>2. size \in Nat BY UploadAssumption
  <2> QED BY <1>1, <2>1, <2>2, PooledStep, UploadsDropped DEF HeldInv
<1>8. ASSUME NEW id, ReleaseResource(id) PROVE HeldInv'
  <2>1. uploads' = uploads BY <1>8 DEF ReleaseResource
  <2> QED BY <1>1, <1>8, <2>1, ReleaseStep, UploadsDropped DEF HeldInv
<1>9. CASE UNCHANGED allVars
  <2>1. uploads' = uploads /\ UNCHANGED <<handed, pool, total>> BY <1>9 DEF allVars, access
  <2>2. PoolInv' BY <1>1, <2>1 DEF PoolInv
  <2> QED BY <1>1, <2>1, <2>2, UploadsDropped DEF HeldInv
<1> QED BY <1>2, <1>3, <1>4, <1>5, <1>6, <1>7, <1>8, <1>9 DEF HomeNext, AccessNext

\* In every reachable state uploads and the pool are counted right, whoever began,
\* finished or abandoned what (begin_upload, import_resource).
THEOREM HeldInvHolds == HomeSpec => []HeldInv
<1>1. HomeInit => HeldInv BY InitHeld DEF HomeInit
<1>2. HeldInv /\ [HomeNext]_allVars => HeldInv' BY NextHeld
<1> QED BY <1>1, <1>2, PTL DEF HomeSpec

\* The uploads of no store grow past the limit of one import, and the pool knows its
\* size, however calls of the components that share it interleave with compositions
\* that go.
THEOREM HeldBytesStayBounded == HomeSpec => []HeldBytesAreBounded
<1>1. HeldInv => HeldBytesAreBounded
  BY DEF HeldInv, UploadsInv, PoolInv, HeldOf, HeldBytesAreBounded
<1> QED BY <1>1, HeldInvHolds, PTL
=============================================================================
