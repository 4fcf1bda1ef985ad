-------------------------- MODULE StateFilesProofs --------------------------
(***************************************************************************)
(* Proofs about StateFiles, for any number of processes and writes: what a *)
(* successful write leaves on disk is never undone by a write that had     *)
(* ended before it began.  The reason is the same for every copy: it comes *)
(* from a write that was running later, and such a write is in no set      *)
(* before[w] until it has ended.                                           *)
(***************************************************************************)
EXTENDS StateFiles, TLAPS

\* Running writes have numbers of their own, and have not ended.
Numbered ==
    /\ \A p \in Processes :
        IF pc[p] = "idle" THEN job[p] = 0
        ELSE job[p] \in 1 .. count /\ job[p] \notin ended
    /\ \A p, q \in Processes : pc[p] # "idle" /\ job[p] = job[q] => p = q
    /\ \A w \in Writes : before[w] \subseteq ended
    /\ \A w \in Writes : w > count => made[w] = {}
    /\ \A l \in Places : wallpaper[l] \in 0 .. count \cup {NoFile}
    /\ \A l \in Places : theme[l] \in 0 .. count \cup {NoFile}

\* A copy made by w never goes back to a write that had ended before w.
Fresh(copies, place, step) ==
    \A w \in Writes : step \in made[w] => copies[place] \notin before[w]

\* A copy that lasts is there for good.
Lasting(copies, place, step) ==
    \A w \in Writes : step \in made[w] => copies[place] # NoFile

CopiesAreFresh ==
    /\ Fresh(wallpaper, "runtime", "wall_runtime")
    /\ Fresh(wallpaper, "persistent", "wall_persistent")
    /\ Fresh(wallpaper, "config", "wall_config")
    /\ Fresh(theme, "runtime", "theme_runtime")
    /\ Fresh(theme, "persistent", "theme_persistent")

CopiesLast ==
    /\ Lasting(wallpaper, "persistent", "wall_persistent")
    /\ Lasting(theme, "persistent", "theme_persistent")
    /\ \A w \in Writes :
        "theme_runtime" \in made[w] =>
            theme["runtime"] # NoFile \/ "theme_persistent" \in made[w]

\* A wallpaper write that runs alone has the radius of the theme it will replace.
RadiusTaken ==
    /\ \A p \in Processes : alone[p] => \A q \in Processes : q # p => pc[q] = "idle"
    /\ \A p \in Processes :
        pc[p] \notin {"idle", "theme_persistent"} => \A l \in Places : theme[l] # job[p]
    /\ \A p \in Processes :
        alone[p] /\ pc[p] = "theme_runtime" /\ kind[job[p]] # "theme" => radius[job[p]] = Radius
    /\ \A p \in Processes :
        pc[p] \in {"wall_runtime", "wall_persistent", "wall_config", "radius"} =>
            kind[job[p]] # "theme"

IInv == TypeOK /\ Numbered /\ CopiesAreFresh /\ CopiesLast /\ RadiusTaken

-----------------------------------------------------------------------------

LEMMA InitIInv == Init => IInv
<1> SUFFICES ASSUME Init PROVE IInv
  OBVIOUS
<1> USE WritesAreNatural, NoFileIsNoWrite, DefaultIsRadius
<1>1. wallpaper \in [Places -> {0, NoFile}] /\ theme \in [Places -> {0, NoFile}]
  BY DEF Init
<1>2. TypeOK
  BY <1>1 DEF Init, TypeOK, Contents, Kinds, Steps, Writes
<1>3. Numbered
  BY <1>1 DEF Init, Numbered, Writes
<1>4. CopiesAreFresh /\ CopiesLast
  BY DEF Init, CopiesAreFresh, CopiesLast, Fresh, Lasting
<1>5. RadiusTaken
  BY DEF Init, RadiusTaken
<1> QED
  BY <1>2, <1>3, <1>4, <1>5 DEF IInv

\* What every step inside a call does to the numbers and the positions.
LEMMA ProceedKeeps ==
    ASSUME IInv, NEW p \in Processes, pc[p] # "idle",
           NEW step \in Steps, Proceed(p, step), UNCHANGED <<kind, count, before>>
    PROVE  /\ pc' = [pc EXCEPT ![p] = step]
           /\ job' \in [Processes -> 0 .. MaxWrites]
           /\ alone' \in [Processes -> BOOLEAN]
           /\ ended' \subseteq 0 .. count
           /\ \A q \in Processes :
                IF pc'[q] = "idle" THEN job'[q] = 0
                ELSE job'[q] = job[q] /\ job'[q] \in 1 .. count /\ job'[q] \notin ended'
           /\ \A q, r \in Processes : pc'[q] # "idle" /\ job'[q] = job'[r] => q = r
           /\ \A w \in Writes : before'[w] \subseteq ended'
           /\ \A q \in Processes : alone'[q] => alone[q]
           /\ \A q \in Processes : q # p => pc'[q] = pc[q] /\ job'[q] = job[q] /\ alone'[q] = alone[q]
<1> USE WritesAreNatural DEF IInv, TypeOK, Numbered
<1>1. job[p] \in 1 .. count /\ job[p] \in 0 .. count /\ job[p] \in 0 .. MaxWrites
  OBVIOUS
<1>2. CASE step = "idle"
  <2>1. /\ pc' = [pc EXCEPT ![p] = "idle"]
        /\ job' = [job EXCEPT ![p] = 0]
        /\ alone' = [alone EXCEPT ![p] = FALSE]
        /\ ended' = ended \cup {job[p]}
    BY <1>2 DEF Proceed, End, GoTo
  <2>2. job' \in [Processes -> 0 .. MaxWrites] /\ alone' \in [Processes -> BOOLEAN]
    BY <2>1
  <2>3. ended' \subseteq 0 .. count
    BY <1>1, <2>1
  <2> QED
    BY <1>1, <1>2, <2>1, <2>2, <2>3
<1>3. CASE step # "idle"
  BY <1>1, <1>3 DEF Proceed, GoTo
<1> QED
  BY <1>2, <1>3

\* The write of a running call is in no set of ended ones.
LEMMA RunningIsNoPast ==
    ASSUME IInv, NEW p \in Processes, pc[p] # "idle"
    PROVE  job[p] \in 1 .. count /\ job[p] \in Writes /\ \A w \in Writes : job[p] \notin before[w]
BY WritesAreNatural DEF IInv, TypeOK, Numbered, Writes

-----------------------------------------------------------------------------

WallpaperCopies ==
    {<<"runtime", "wall_runtime">>, <<"persistent", "wall_persistent">>, <<"config", "wall_config">>}

ThemeCopies == {<<"runtime", "theme_runtime">>, <<"persistent", "theme_persistent">>}

\* A copy of the wallpaper is made: it comes from a running write.
LEMMA WallpaperCopyMade ==
    ASSUME IInv, NEW p \in Processes, pc[p] # "idle",
           NEW place, NEW s, <<place, s>> \in WallpaperCopies,
           wallpaper' = [wallpaper EXCEPT ![place] = job[p]],
           made' = [made EXCEPT ![job[p]] = @ \cup {s}],
           UNCHANGED <<theme, before>>
    PROVE  CopiesAreFresh' /\ CopiesLast'
<1>1. job[p] \in Writes /\ \A w \in Writes : job[p] \notin before[w]
  BY RunningIsNoPast
<1>2. job[p] # NoFile
  BY <1>1, WritesAreNatural, NoFileIsNoWrite DEF Writes
<1>3. \A w \in Writes, t \in Steps : t \in made'[w] => t \in made[w] \/ t = s
  BY <1>1 DEF IInv, TypeOK
<1>4. \A l \in Places : wallpaper'[l] = IF l = place THEN job[p] ELSE wallpaper[l]
  BY DEF IInv, TypeOK
<1>5. \A w \in Writes : "theme_persistent" \in made[w] => "theme_persistent" \in made'[w]
  BY <1>1 DEF IInv, TypeOK
<1> QED
  BY <1>1, <1>2, <1>3, <1>4, <1>5
     DEF IInv, WallpaperCopies, CopiesAreFresh, CopiesLast, Fresh, Lasting, Places, Steps

\* The same for a copy of the theme.
LEMMA ThemeCopyMade ==
    ASSUME IInv, NEW p \in Processes, pc[p] # "idle",
           NEW place, NEW s, <<place, s>> \in ThemeCopies,
           theme' = [theme EXCEPT ![place] = job[p]],
           made' = [made EXCEPT ![job[p]] = @ \cup {s}],
           UNCHANGED <<wallpaper, before>>
    PROVE  CopiesAreFresh' /\ CopiesLast'
<1>1. job[p] \in Writes /\ \A w \in Writes : job[p] \notin before[w]
  BY RunningIsNoPast
<1>2. job[p] # NoFile
  BY <1>1, WritesAreNatural, NoFileIsNoWrite DEF Writes
<1>3. \A w \in Writes, t \in Steps : t \in made'[w] => t \in made[w] \/ t = s
  BY <1>1 DEF IInv, TypeOK
<1>4. \A l \in Places : theme'[l] = IF l = place THEN job[p] ELSE theme[l]
  BY DEF IInv, TypeOK
<1>5. \A w \in Writes : "theme_persistent" \in made[w] => "theme_persistent" \in made'[w]
  BY <1>1 DEF IInv, TypeOK
<1> QED
  BY <1>1, <1>2, <1>3, <1>4, <1>5
     DEF IInv, ThemeCopies, CopiesAreFresh, CopiesLast, Fresh, Lasting, Places, Steps

\* No copy is touched.
LEMMA CopiesUntouched ==
    ASSUME CopiesAreFresh, CopiesLast, UNCHANGED <<wallpaper, theme, before, made>>
    PROVE  CopiesAreFresh' /\ CopiesLast'
BY DEF CopiesAreFresh, CopiesLast, Fresh, Lasting

\* A step of the wallpaper part of a call.
LEMMA WallpaperStep ==
    ASSUME IInv, NEW p \in Processes,
           NEW place, NEW s, <<place, s>> \in WallpaperCopies, pc[p] = s,
           NEW onSuccess \in {"wall_persistent", "wall_config", "radius"},
           NEW onFailure \in {"wall_persistent", "wall_config", "radius", "idle"},
           WriteAtomic(p, wallpaper, place, onSuccess, onFailure),
           UNCHANGED <<theme, radius, kind, count, before>>
    PROVE  IInv'
<1> USE WritesAreNatural DEF WallpaperCopies
<1>1. pc[p] # "idle" /\ place \in Places /\ s \in Steps /\ onSuccess \in Steps /\ onFailure \in Steps
  BY DEF Places, Steps
<1>2. job[p] \in 1 .. count /\ job[p] \in Writes
  BY <1>1, RunningIsNoPast
<1>3. PICK step \in {onSuccess, onFailure} : Proceed(p, step)
  BY DEF WriteAtomic
<1>4. \/ /\ wallpaper' = [wallpaper EXCEPT ![place] = job[p]]
         /\ made' = [made EXCEPT ![job[p]] = @ \cup {s}]
      \/ UNCHANGED <<wallpaper, made>>
  BY DEF WriteAtomic
<1>5. CopiesAreFresh' /\ CopiesLast'
  BY <1>1, <1>4, WallpaperCopyMade, CopiesUntouched DEF IInv
<1>6. /\ pc' = [pc EXCEPT ![p] = step]
      /\ job' \in [Processes -> 0 .. MaxWrites]
      /\ alone' \in [Processes -> BOOLEAN]
      /\ ended' \subseteq 0 .. count
      /\ \A q \in Processes :
           IF pc'[q] = "idle" THEN job'[q] = 0
           ELSE job'[q] = job[q] /\ job'[q] \in 1 .. count /\ job'[q] \notin ended'
      /\ \A q, r \in Processes : pc'[q] # "idle" /\ job'[q] = job'[r] => q = r
      /\ \A w \in Writes : before'[w] \subseteq ended'
      /\ \A q \in Processes : alone'[q] => alone[q]
      /\ \A q \in Processes : q # p => pc'[q] = pc[q] /\ job'[q] = job[q] /\ alone'[q] = alone[q]
  BY <1>1, <1>3, ProceedKeeps
<1>7. TypeOK'
  <2>1. wallpaper' \in [Places -> Contents]
    <3>1. job[p] \in Contents
      BY <1>2 DEF Contents, Writes
    <3> QED
      BY <1>4, <3>1 DEF IInv, TypeOK
  <2>3. made' \in [Writes -> SUBSET Steps]
    BY <1>1, <1>4 DEF IInv, TypeOK
  <2>2. pc' \in [Processes -> Steps]
    BY <1>1, <1>6 DEF IInv, TypeOK
  <2> QED
    BY <1>6, <2>1, <2>2, <2>3 DEF IInv, TypeOK
<1>8. Numbered'
  <2>1. \A w \in Writes : w > count => made'[w] = {}
    <3>1. \A w \in Writes : w > count => w # job[p]
      BY <1>2 DEF IInv, TypeOK, Writes
    <3> QED
      BY <1>4, <3>1 DEF IInv, TypeOK, Numbered
  <2>2. \A l \in Places : wallpaper'[l] \in 0 .. count \cup {NoFile}
    <3>1. \A l \in Places : wallpaper'[l] = wallpaper[l] \/ wallpaper'[l] = job[p]
      BY <1>4 DEF IInv, TypeOK
    <3>2. job[p] \in 0 .. count
      BY DEF IInv, TypeOK, Numbered
    <3> QED
      BY <3>1, <3>2 DEF IInv, Numbered
  <2> QED
    BY <1>6, <2>1, <2>2 DEF IInv, Numbered
<1>9. RadiusTaken'
  <2>2. \A q \in Processes : q # p => ~alone'[q]
    BY <1>1, <1>6 DEF IInv, RadiusTaken
  <2>3. pc'[p] = step
    BY <1>6 DEF IInv, TypeOK
  <2>4. \A q \in Processes : alone'[q] => \A r \in Processes : r # q => pc'[r] = "idle"
    BY <1>6, <2>2 DEF IInv, RadiusTaken
  <2>5. \A q \in Processes :
          pc'[q] \notin {"idle", "theme_persistent"} => \A l \in Places : theme'[l] # job'[q]
    BY <1>1, <1>6 DEF IInv, RadiusTaken
  <2>6. \A q \in Processes : alone'[q] => pc'[q] # "theme_runtime"
    BY <2>2, <2>3
  <2>7. \A q \in Processes :
          pc'[q] \in {"wall_runtime", "wall_persistent", "wall_config", "radius"} =>
              kind'[job'[q]] # "theme"
    BY <1>1, <1>6 DEF IInv, RadiusTaken
  <2> QED
    BY <2>4, <2>5, <2>6, <2>7 DEF RadiusTaken
<1> QED
  BY <1>5, <1>7, <1>8, <1>9 DEF IInv

\* A step of the theme part of a call.
LEMMA ThemeStep ==
    ASSUME IInv, NEW p \in Processes,
           NEW place, NEW s, <<place, s>> \in ThemeCopies, pc[p] = s,
           NEW onSuccess \in {"theme_persistent", "idle"}, NEW onFailure \in {"idle"},
           WriteAtomic(p, theme, place, onSuccess, onFailure),
           UNCHANGED <<wallpaper, radius, kind, count, before>>
    PROVE  IInv'
<1> USE WritesAreNatural DEF ThemeCopies
<1>1. pc[p] # "idle" /\ place \in Places /\ s \in Steps /\ onSuccess \in Steps /\ onFailure \in Steps
  BY DEF Places, Steps
<1>2. job[p] \in 1 .. count /\ job[p] \in Writes
  BY <1>1, RunningIsNoPast
<1>3. PICK step \in {onSuccess, onFailure} : Proceed(p, step)
  BY DEF WriteAtomic
<1>4. \/ /\ theme' = [theme EXCEPT ![place] = job[p]]
         /\ made' = [made EXCEPT ![job[p]] = @ \cup {s}]
      \/ UNCHANGED <<theme, made>>
  BY DEF WriteAtomic
<1>5. CopiesAreFresh' /\ CopiesLast'
  BY <1>1, <1>4, ThemeCopyMade, CopiesUntouched DEF IInv
<1>6. /\ pc' = [pc EXCEPT ![p] = step]
      /\ job' \in [Processes -> 0 .. MaxWrites]
      /\ alone' \in [Processes -> BOOLEAN]
      /\ ended' \subseteq 0 .. count
      /\ \A q \in Processes :
           IF pc'[q] = "idle" THEN job'[q] = 0
           ELSE job'[q] = job[q] /\ job'[q] \in 1 .. count /\ job'[q] \notin ended'
      /\ \A q, r \in Processes : pc'[q] # "idle" /\ job'[q] = job'[r] => q = r
      /\ \A w \in Writes : before'[w] \subseteq ended'
      /\ \A q \in Processes : alone'[q] => alone[q]
      /\ \A q \in Processes : q # p => pc'[q] = pc[q] /\ job'[q] = job[q] /\ alone'[q] = alone[q]
  BY <1>1, <1>3, ProceedKeeps
<1>7. TypeOK'
  <2>1. theme' \in [Places -> Contents]
    <3>1. job[p] \in Contents
      BY <1>2 DEF Contents, Writes
    <3> QED
      BY <1>4, <3>1 DEF IInv, TypeOK
  <2>3. made' \in [Writes -> SUBSET Steps]
    BY <1>1, <1>4 DEF IInv, TypeOK
  <2>2. pc' \in [Processes -> Steps]
    BY <1>1, <1>6 DEF IInv, TypeOK
  <2> QED
    BY <1>6, <2>1, <2>2, <2>3 DEF IInv, TypeOK
<1>8. Numbered'
  <2>1. \A w \in Writes : w > count => made'[w] = {}
    <3>1. \A w \in Writes : w > count => w # job[p]
      BY <1>2 DEF IInv, TypeOK, Writes
    <3> QED
      BY <1>4, <3>1 DEF IInv, TypeOK, Numbered
  <2>2. \A l \in Places : theme'[l] \in 0 .. count \cup {NoFile}
    <3>1. \A l \in Places : theme'[l] = theme[l] \/ theme'[l] = job[p]
      BY <1>4 DEF IInv, TypeOK
    <3>2. job[p] \in 0 .. count
      BY DEF IInv, TypeOK, Numbered
    <3> QED
      BY <3>1, <3>2 DEF IInv, Numbered
  <2> QED
    BY <1>6, <2>1, <2>2 DEF IInv, Numbered
<1>9. RadiusTaken'
  <2>2. \A q \in Processes : q # p => ~alone'[q]
    BY <1>1, <1>6 DEF IInv, RadiusTaken
  <2>3. pc'[p] = step
    BY <1>6 DEF IInv, TypeOK
  <2>4. \A q \in Processes : alone'[q] => \A r \in Processes : r # q => pc'[r] = "idle"
    BY <1>6, <2>2 DEF IInv, RadiusTaken
  <2>5. \A q \in Processes :
          pc'[q] \notin {"idle", "theme_persistent"} => \A l \in Places : theme'[l] # job'[q]
    <3> SUFFICES ASSUME NEW q \in Processes, pc'[q] \notin {"idle", "theme_persistent"},
                        NEW l \in Places
                 PROVE  theme'[l] # job'[q]
      OBVIOUS
    <3>1. q # p /\ job'[q] = job[q] /\ pc'[q] = pc[q]
      BY <1>6, <2>3
    <3>2. theme'[l] \in {theme[l], job[p]}
      BY <1>4 DEF IInv, TypeOK
    <3>3. job[q] # job[p]
      BY <1>1, <3>1 DEF IInv, Numbered
    <3> QED
      BY <3>1, <3>2, <3>3 DEF IInv, RadiusTaken
  <2>6. \A q \in Processes : alone'[q] => pc'[q] # "theme_runtime"
    BY <2>2, <2>3
  <2>7. \A q \in Processes :
          pc'[q] \in {"wall_runtime", "wall_persistent", "wall_config", "radius"} =>
              kind'[job'[q]] # "theme"
    BY <1>1, <1>6, <2>3 DEF IInv, RadiusTaken
  <2> QED
    BY <2>4, <2>5, <2>6, <2>7 DEF RadiusTaken
<1> QED
  BY <1>5, <1>7, <1>8, <1>9 DEF IInv

-----------------------------------------------------------------------------

\* A call begins.
LEMMA BeginStep ==
    ASSUME IInv, NEW p \in Processes, NEW k \in Kinds,
           NEW step \in {"wall_runtime", "theme_runtime"},
           step = "theme_runtime" <=> k = "theme",
           Begin(p, k, step),
           radius' \in [0 .. MaxWrites -> Radii],
           \A w \in 0 .. count : radius'[w] = radius[w]
    PROVE  IInv'
<1> USE WritesAreNatural, NoFileIsNoWrite
<1> DEFINE n == count + 1
<1>1. n \in Writes /\ n \in 0 .. MaxWrites /\ n \notin ended /\ n \notin 0 .. count /\ count \in Nat
  BY DEF Begin, IInv, TypeOK, Writes
<1>2. /\ pc[p] = "idle" /\ count' = n
      /\ kind' = [kind EXCEPT ![n] = k]
      /\ job' = [job EXCEPT ![p] = n]
      /\ pc' = [pc EXCEPT ![p] = step]
      /\ before' = [before EXCEPT ![n] = ended]
      /\ alone' = [q \in Processes |-> q = p /\ \A o \in Processes : pc[o] = "idle"]
      /\ UNCHANGED <<wallpaper, theme, ended, made>>
  BY DEF Begin, GoTo
<1>3. 0 .. count \subseteq 0 .. count' /\ 1 .. count \subseteq 1 .. count' /\ n \in 1 .. count'
  BY <1>1, <1>2
<1> HIDE DEF n
<1>4. TypeOK'
  <2>1. ended \subseteq 0 .. MaxWrites
    BY DEF IInv, TypeOK
  <2>2. before' \in [Writes -> SUBSET (0 .. MaxWrites)]
    BY <1>2, <2>1 DEF IInv, TypeOK
  <2>3. kind' \in [0 .. MaxWrites -> Kinds] /\ job' \in [Processes -> 0 .. MaxWrites]
    BY <1>1, <1>2 DEF IInv, TypeOK
  <2>4. pc' \in [Processes -> Steps] /\ alone' \in [Processes -> BOOLEAN]
    BY <1>2 DEF IInv, TypeOK, Steps
  <2>5. count' \in 0 .. MaxWrites /\ ended' \subseteq 0 .. count'
    BY <1>1, <1>2, <1>3 DEF IInv, TypeOK
  <2> QED
    BY <1>2, <2>2, <2>3, <2>4, <2>5 DEF IInv, TypeOK
<1>5. Numbered'
  <2>1. \A q \in Processes :
          IF pc'[q] = "idle" THEN job'[q] = 0
          ELSE job'[q] \in 1 .. count' /\ job'[q] \notin ended'
    BY <1>1, <1>2, <1>3 DEF IInv, TypeOK, Numbered
  <2>2. \A q \in Processes : job[q] # n
    <3>1. \A q \in Processes : job[q] \in 0 .. count
      BY <1>1 DEF IInv, Numbered
    <3> QED
      BY <1>1, <3>1
  <2>3. \A q, r \in Processes : pc'[q] # "idle" /\ job'[q] = job'[r] => q = r
    BY <1>2, <2>2 DEF IInv, TypeOK, Numbered
  <2>4. \A w \in Writes : before'[w] \subseteq ended'
    BY <1>2 DEF IInv, TypeOK, Numbered
  <2>5. \A w \in Writes : w > count' => made'[w] = {}
    <3>1. \A w \in Writes : w > count' => w > count
      BY <1>1, <1>2 DEF Writes, n
    <3> QED
      BY <1>2, <3>1 DEF IInv, Numbered
  <2>6. /\ \A l \in Places : wallpaper'[l] \in 0 .. count' \cup {NoFile}
        /\ \A l \in Places : theme'[l] \in 0 .. count' \cup {NoFile}
    BY <1>2, <1>3 DEF IInv, Numbered
  <2> QED
    BY <2>1, <2>3, <2>4, <2>5, <2>6 DEF Numbered
<1>6. CopiesAreFresh' /\ CopiesLast'
  <2>1. made[n] = {}
    BY <1>1 DEF IInv, Numbered, n
  <2>2. \A w \in Writes, s \in Steps : s \in made'[w] => w # n /\ s \in made[w]
    BY <1>2, <2>1
  <2>3. \A w \in Writes : w # n => before'[w] = before[w]
    BY <1>2 DEF IInv, TypeOK
  <2> QED
    BY <1>2, <2>2, <2>3 DEF IInv, CopiesAreFresh, CopiesLast, Fresh, Lasting, Steps
<1>7. RadiusTaken'
  <2>1. \A q \in Processes : pc'[q] # "idle" /\ q # p => job[q] # n /\ job'[q] = job[q] /\ pc'[q] = pc[q]
    BY <1>1, <1>2 DEF IInv, TypeOK, Numbered
  <2>2. \A q \in Processes : alone'[q] => \A r \in Processes : r # q => pc'[r] = "idle"
    BY <1>2 DEF IInv, TypeOK
  <2>3. \A l \in Places : theme[l] # n
    BY <1>1 DEF IInv, Numbered
  <2>4. \A q \in Processes :
          pc'[q] \notin {"idle", "theme_persistent"} => \A l \in Places : theme'[l] # job'[q]
    BY <1>2, <2>1, <2>3 DEF IInv, TypeOK, RadiusTaken
  <2>5. kind'[n] = k /\ \A w \in 0 .. MaxWrites : w # n => kind'[w] = kind[w]
    BY <1>1, <1>2 DEF IInv, TypeOK
  <2>6. \A q \in Processes :
          alone'[q] /\ pc'[q] = "theme_runtime" => kind'[job'[q]] = "theme"
    BY <1>2, <2>5 DEF IInv, TypeOK
  <2>7. \A q \in Processes :
          pc'[q] \in {"wall_runtime", "wall_persistent", "wall_config", "radius"} =>
              kind'[job'[q]] # "theme"
    BY <1>2, <2>1, <2>5 DEF IInv, TypeOK, RadiusTaken
  <2> QED
    BY <2>2, <2>4, <2>6, <2>7 DEF RadiusTaken
<1> QED
  BY <1>4, <1>5, <1>6, <1>7 DEF IInv

\* The theme of a wallpaper takes the radius of the theme on disk.
LEMMA TakeRadiusStep ==
    ASSUME IInv, NEW p \in Processes, TakeRadius(p) PROVE IInv'
<1> USE WritesAreNatural, NoFileIsNoWrite
<1>1. /\ pc[p] = "radius" /\ pc' = [pc EXCEPT ![p] = "theme_runtime"]
      /\ radius' = [radius EXCEPT ![job[p]] = Radius]
      /\ UNCHANGED <<wallpaper, theme, kind, job, count, ended, before, made, alone>>
  BY DEF TakeRadius, GoTo, history
<1>2. Radius \in Radii
  <2>1. ReadTheme \in 0 .. MaxWrites \cup {NoFile}
    BY DEF ReadTheme, FirstOf, IInv, TypeOK, Places, Contents
  <2> QED
    BY <2>1, DefaultIsRadius DEF Radius, IInv, TypeOK
<1>3. TypeOK'
  BY <1>1, <1>2 DEF IInv, TypeOK, Steps
<1>4. Numbered'
  BY <1>1 DEF IInv, TypeOK, Numbered
<1>5. CopiesAreFresh' /\ CopiesLast'
  BY <1>1, CopiesUntouched DEF IInv
<1>6. RadiusTaken'
  <2>1. radius'[job[p]] = Radius
    BY <1>1 DEF IInv, TypeOK
  <2>2. Radius' = Radius
    <3>1. ReadTheme' = ReadTheme
      BY <1>1 DEF ReadTheme, FirstOf
    <3>2. ReadTheme # job[p]
      BY <1>1 DEF IInv, RadiusTaken, ReadTheme, FirstOf, Places
    <3>3. ReadTheme \in 0 .. MaxWrites \cup {NoFile}
      BY DEF ReadTheme, FirstOf, IInv, TypeOK, Places, Contents
    <3> QED
      BY <1>1, <3>1, <3>2, <3>3 DEF Radius, IInv, TypeOK
  <2>3. \A q \in Processes : alone'[q] /\ pc'[q] = "theme_runtime" => q = p
    BY <1>1 DEF IInv, TypeOK, RadiusTaken
  <2>4. \A q \in Processes :
          alone'[q] /\ pc'[q] = "theme_runtime" /\ kind'[job'[q]] # "theme" => radius'[job'[q]] = Radius'
    BY <1>1, <2>1, <2>2, <2>3
  <2>5. \A q \in Processes : alone'[q] => \A r \in Processes : r # q => pc'[r] = "idle"
    BY <1>1 DEF IInv, TypeOK, RadiusTaken
  <2>6. \A q \in Processes :
          pc'[q] \notin {"idle", "theme_persistent"} => \A l \in Places : theme'[l] # job'[q]
    BY <1>1 DEF IInv, TypeOK, RadiusTaken
  <2>7. \A q \in Processes :
          pc'[q] \in {"wall_runtime", "wall_persistent", "wall_config", "radius"} =>
              kind'[job'[q]] # "theme"
    BY <1>1 DEF IInv, TypeOK, RadiusTaken
  <2> QED
    BY <2>4, <2>5, <2>6, <2>7 DEF RadiusTaken
<1> QED
  BY <1>3, <1>4, <1>5, <1>6 DEF IInv

LEMMA CrashStep ==
    ASSUME IInv, NEW p \in Processes, Crash(p) PROVE IInv'
<1>1. pc[p] # "idle" /\ Proceed(p, "idle") /\ "idle" \in Steps
  BY DEF Crash, Proceed, Steps
<1>2. UNCHANGED <<wallpaper, theme, radius, kind, count, before, made>>
  BY DEF Crash, files
<1>3. /\ pc' = [pc EXCEPT ![p] = "idle"]
      /\ job' \in [Processes -> 0 .. MaxWrites]
      /\ alone' \in [Processes -> BOOLEAN]
      /\ ended' \subseteq 0 .. count
      /\ \A q \in Processes :
           IF pc'[q] = "idle" THEN job'[q] = 0
           ELSE job'[q] = job[q] /\ job'[q] \in 1 .. count /\ job'[q] \notin ended'
      /\ \A q, r \in Processes : pc'[q] # "idle" /\ job'[q] = job'[r] => q = r
      /\ \A w \in Writes : before'[w] \subseteq ended'
      /\ \A q \in Processes : alone'[q] => alone[q]
      /\ \A q \in Processes : q # p => pc'[q] = pc[q] /\ job'[q] = job[q] /\ alone'[q] = alone[q]
  BY <1>1, <1>2, ProceedKeeps
<1>4. TypeOK'
  BY <1>1, <1>2, <1>3 DEF IInv, TypeOK
<1>5. Numbered'
  BY <1>2, <1>3 DEF IInv, Numbered
<1>6. CopiesAreFresh' /\ CopiesLast'
  BY <1>2, CopiesUntouched DEF IInv
<1>7. RadiusTaken'
  <2>1. Radius' = Radius
    BY <1>2 DEF Radius, ReadTheme, FirstOf
  <2>2. pc'[p] = "idle"
    BY <1>3 DEF IInv, TypeOK
  <2>3. \A q \in Processes : alone'[q] => \A r \in Processes : r # q => pc'[r] = "idle"
    BY <1>3, <2>2 DEF IInv, RadiusTaken
  <2>4. \A q \in Processes :
          pc'[q] # "idle" => q # p /\ pc'[q] = pc[q] /\ job'[q] = job[q] /\ alone'[q] = alone[q]
    BY <1>3, <2>2
  <2> QED
    BY <1>2, <2>1, <2>3, <2>4 DEF IInv, RadiusTaken
<1> QED
  BY <1>4, <1>5, <1>6, <1>7 DEF IInv

LEMMA RebootStep ==
    ASSUME IInv, Reboot PROVE IInv'
<1> USE WritesAreNatural, NoFileIsNoWrite
<1>1. /\ wallpaper' = [wallpaper EXCEPT !["runtime"] = NoFile]
      /\ theme' = [theme EXCEPT !["runtime"] = NoFile]
      /\ ended' = ended \cup {job[p] : p \in Processes}
      /\ pc' = [p \in Processes |-> "idle"]
      /\ job' = [p \in Processes |-> 0]
      /\ alone' = [p \in Processes |-> FALSE]
      /\ UNCHANGED <<radius, kind, count, before>>
  BY DEF Reboot
<1>2. made' \in [Writes -> SUBSET Steps]
  BY DEF Reboot, IInv, TypeOK
<1>3. \A w \in Writes :
        /\ made'[w] \subseteq made[w]
        /\ "theme_runtime" \in made'[w] => "theme_persistent" \in made[w]
        /\ "theme_persistent" \in made[w] => "theme_persistent" \in made'[w]
  BY DEF Reboot
<1>4. /\ \A l \in Places : wallpaper'[l] = IF l = "runtime" THEN NoFile ELSE wallpaper[l]
      /\ \A l \in Places : theme'[l] = IF l = "runtime" THEN NoFile ELSE theme[l]
  BY <1>1 DEF IInv, TypeOK
<1>5. TypeOK'
  <2>1. wallpaper' \in [Places -> Contents] /\ theme' \in [Places -> Contents]
    BY <1>1 DEF IInv, TypeOK, Contents
  <2>2. ended' \subseteq 0 .. count'
    <3>1. count \in Nat
      BY DEF IInv, TypeOK
    <3>2. \A p \in Processes : job[p] \in 0 .. count
      <4> SUFFICES ASSUME NEW p \in Processes PROVE job[p] \in 0 .. count
        OBVIOUS
      <4>1. CASE pc[p] = "idle"
        BY <3>1, <4>1 DEF IInv, Numbered
      <4>2. CASE pc[p] # "idle"
        BY <3>1, <4>2 DEF IInv, Numbered
      <4> QED
        BY <4>1, <4>2
    <3> QED
      BY <1>1, <3>2 DEF IInv, TypeOK
  <2> QED
    BY <1>1, <1>2, <2>1, <2>2 DEF IInv, TypeOK, Steps
<1>6. Numbered'
  BY <1>1, <1>3, <1>4 DEF IInv, TypeOK, Numbered
<1>7. \A w \in Writes : NoFile \notin before[w]
  BY DEF IInv, TypeOK
<1>8. CopiesAreFresh'
  <2>1. Fresh(wallpaper, "runtime", "wall_runtime")' /\ Fresh(theme, "runtime", "theme_runtime")'
    BY <1>1, <1>4, <1>7 DEF Fresh, Places
  <2>2. /\ Fresh(wallpaper, "persistent", "wall_persistent")'
        /\ Fresh(wallpaper, "config", "wall_config")'
        /\ Fresh(theme, "persistent", "theme_persistent")'
    BY <1>1, <1>3, <1>4 DEF IInv, CopiesAreFresh, Fresh, Places
  <2> QED
    BY <2>1, <2>2 DEF CopiesAreFresh
<1>9. CopiesLast'
  BY <1>3, <1>4 DEF IInv, CopiesLast, Lasting, Places
<1>10. RadiusTaken'
  BY <1>1 DEF RadiusTaken
<1> QED
  BY <1>5, <1>6, <1>8, <1>9, <1>10 DEF IInv

LEMMA InductiveStep == IInv /\ [Next]_vars => IInv'
<1> SUFFICES ASSUME IInv, [Next]_vars PROVE IInv'
  OBVIOUS
<1>1. ASSUME NEW p \in Processes, NEW k \in Kinds, WriteWallpaper(p, k) PROVE IInv'
  BY <1>1, BeginStep DEF WriteWallpaper, IInv, TypeOK
<1>2. ASSUME NEW p \in Processes, NEW r \in Radii, WriteTheme(p, r) PROVE IInv'
  <2>1. Begin(p, "theme", "theme_runtime") /\ radius' = [radius EXCEPT ![count + 1] = r]
    BY <1>2 DEF WriteTheme
  <2>2. radius' \in [0 .. MaxWrites -> Radii]
    BY <2>1 DEF IInv, TypeOK
  <2>3. \A w \in 0 .. count : radius'[w] = radius[w]
    <3>1. \A w \in 0 .. count : w # count + 1 /\ w \in 0 .. MaxWrites
      BY WritesAreNatural DEF IInv, TypeOK
    <3> QED
      BY <2>1, <3>1 DEF IInv, TypeOK
  <2>4. "theme" \in Kinds
    BY DEF Kinds
  <2> QED
    BY <2>1, <2>2, <2>3, <2>4, BeginStep
<1>3. ASSUME NEW p \in Processes, WallpaperRuntime(p) PROVE IInv'
  BY <1>3, WallpaperStep DEF WallpaperRuntime, WallpaperCopies
<1>4. ASSUME NEW p \in Processes, WallpaperPersistent(p) PROVE IInv'
  BY <1>4, WallpaperStep DEF WallpaperPersistent, WallpaperCopies
<1>5. ASSUME NEW p \in Processes, WallpaperConfig(p) PROVE IInv'
  BY <1>5, WallpaperStep DEF WallpaperConfig, WallpaperCopies
<1>6. ASSUME NEW p \in Processes, TakeRadius(p) PROVE IInv'
  BY <1>6, TakeRadiusStep
<1>7. ASSUME NEW p \in Processes, ThemeRuntime(p) PROVE IInv'
  BY <1>7, ThemeStep DEF ThemeRuntime, ThemeCopies
<1>8. ASSUME NEW p \in Processes, ThemePersistent(p) PROVE IInv'
  BY <1>8, ThemeStep DEF ThemePersistent, ThemeCopies
<1>9. ASSUME NEW p \in Processes, Crash(p) PROVE IInv'
  BY <1>9, CrashStep
<1>10. CASE Reboot
  BY <1>10, RebootStep
<1>11. CASE UNCHANGED vars
  BY <1>11 DEF vars, files, history, IInv, TypeOK, Numbered, CopiesAreFresh, CopiesLast, Fresh,
     Lasting, RadiusTaken, Radius, ReadTheme, FirstOf
<1> QED
  BY <1>1, <1>2, <1>3, <1>4, <1>5, <1>6, <1>7, <1>8, <1>9, <1>10, <1>11 DEF Next, Step

LEMMA Inductive == Spec => []IInv
BY InitIInv, InductiveStep, PTL DEF Spec

-----------------------------------------------------------------------------

\* The variables keep their types.
THEOREM TypeCorrect == Spec => []TypeOK
BY Inductive, PTL DEF IInv

\* What read_wallpaper_state gives is not older than a successful write.
THEOREM OkWallpapersAreRead == Spec => []OkWallpaperIsRead
<1>1. IInv => OkWallpaperIsRead
  BY NoFileIsNoWrite, WritesAreNatural
     DEF IInv, TypeOK, CopiesAreFresh, CopiesLast, Fresh, Lasting, OkWallpaperIsRead,
         ReadWallpaper, FirstOf, Places
<1> QED
  BY <1>1, Inductive, PTL

\* What read_persisted_wallpaper_state gives is not older than a successful write.
THEOREM OkWallpapersPersist == Spec => []OkWallpaperPersists
<1>1. IInv => OkWallpaperPersists
  <2> SUFFICES ASSUME IInv, NEW w \in Writes, "wall_persistent" \in made[w],
                      \/ kind[wallpaper["persistent"]] # "blank"
                      \/ {"wall_runtime", "wall_config"} \subseteq made[w]
               PROVE  ReadPersisted \notin before[w]
    BY DEF OkWallpaperPersists
  <2> DEFINE solid == [l \in Places |->
                 IF wallpaper[l] # NoFile /\ kind[wallpaper[l]] = "blank" THEN NoFile
                 ELSE wallpaper[l]]
  <2>1. NoFile \notin before[w]
    BY NoFileIsNoWrite, WritesAreNatural DEF IInv, TypeOK
  <2>2. \A l \in Places : solid[l] = NoFile \/ solid[l] = wallpaper[l]
    OBVIOUS
  <2>3. wallpaper["persistent"] # NoFile /\ wallpaper["persistent"] \notin before[w]
    BY DEF IInv, CopiesAreFresh, CopiesLast, Fresh, Lasting
  <2>4. kind[wallpaper["persistent"]] # "blank" => solid["persistent"] = wallpaper["persistent"]
    BY DEF Places
  <2>5. {"wall_runtime", "wall_config"} \subseteq made[w] =>
          wallpaper["runtime"] \notin before[w] /\ wallpaper["config"] \notin before[w]
    BY DEF IInv, CopiesAreFresh, Fresh
  <2>6. ReadPersisted = FirstOf(solid, "persistent", "config", "runtime")
    BY DEF ReadPersisted
  <2> HIDE DEF solid
  <2> QED
    BY <2>1, <2>2, <2>3, <2>4, <2>5, <2>6 DEF FirstOf, Places
<1> QED
  BY <1>1, Inductive, PTL

\* What read_theme_state gives is not older than a theme written for good.
THEOREM OkThemesAreRead == Spec => []OkThemeIsRead
<1>1. IInv => OkThemeIsRead
  BY NoFileIsNoWrite, WritesAreNatural
     DEF IInv, TypeOK, CopiesAreFresh, CopiesLast, Fresh, Lasting, OkThemeIsRead,
         ReadTheme, FirstOf, Places
<1> QED
  BY <1>1, Inductive, PTL

\* No reader is given what a successful write had replaced.
THEOREM WritesAreAlwaysKept == Spec => []WritesAreKept
BY OkWallpapersAreRead, OkWallpapersPersist, OkThemesAreRead, PTL DEF WritesAreKept

\* A wallpaper write that runs alone leaves the radius as it is.
THEOREM RadiusAlwaysKept == Spec => RadiusKept
<1> DEFINE A == \A p \in Processes :
        alone[p] /\ kind[job[p]] # "theme" /\ pc[p] # "idle" /\ pc'[p] # pc[p] /\ pc'[p] # "idle"
        => Radius' = Radius
<1>1. IInv /\ [Next]_vars => A
  <2> SUFFICES ASSUME IInv, Next, NEW p \in Processes,
                      alone[p], kind[job[p]] # "theme", pc[p] # "idle", pc'[p] # pc[p], pc'[p] # "idle"
               PROVE  Radius' = Radius
    BY DEF vars
  <2>1. PICK q \in Processes : Step(q)
    BY DEF Next, Reboot
  <2>2. UNCHANGED <<theme, radius>> => Radius' = Radius
    BY DEF Radius, ReadTheme, FirstOf
  <2>3. q = p
    <3>1. q # p => pc[q] = "idle"
      BY DEF IInv, RadiusTaken
    <3>2. Step(q) /\ pc[q] = "idle" => \E step \in Steps : pc' = [pc EXCEPT ![q] = step]
      BY DEF Step, WriteWallpaper, WriteTheme, Begin, GoTo, WallpaperRuntime, WallpaperPersistent,
             WallpaperConfig, TakeRadius, ThemeRuntime, ThemePersistent, Crash, Steps
    <3> QED
      BY <2>1, <3>1, <3>2 DEF IInv, TypeOK
  <2>4. CASE WallpaperRuntime(p) \/ WallpaperPersistent(p) \/ WallpaperConfig(p)
    BY <2>2, <2>4 DEF WallpaperRuntime, WallpaperPersistent, WallpaperConfig
  <2>5. CASE TakeRadius(p)
    <3>1. pc[p] = "radius" /\ radius' = [radius EXCEPT ![job[p]] = Radius] /\ UNCHANGED theme
      BY <2>5 DEF TakeRadius
    <3>2. ReadTheme' = ReadTheme
      BY <3>1 DEF ReadTheme, FirstOf
    <3>3. ReadTheme # job[p]
      BY <3>1 DEF IInv, RadiusTaken, ReadTheme, FirstOf, Places
    <3>4. ReadTheme \in 0 .. MaxWrites \cup {NoFile}
      BY DEF ReadTheme, FirstOf, IInv, TypeOK, Places, Contents
    <3> QED
      BY <3>1, <3>2, <3>3, <3>4 DEF Radius, IInv, TypeOK
  <2>6. CASE ThemeRuntime(p)
    <3>1. pc[p] = "theme_runtime" /\ UNCHANGED radius
      BY <2>6 DEF ThemeRuntime
    <3>2. pc'[p] = "theme_persistent" => theme' = [theme EXCEPT !["runtime"] = job[p]]
      BY <2>6 DEF ThemeRuntime, WriteAtomic, Proceed, End, GoTo, IInv, TypeOK
    <3>3. pc'[p] = "theme_persistent"
      BY <2>6 DEF ThemeRuntime, WriteAtomic, Proceed, End, GoTo, IInv, TypeOK
    <3>4. theme'["runtime"] = job[p] /\ job[p] # NoFile
      BY <3>2, <3>3, NoFileIsNoWrite DEF IInv, TypeOK, Places
    <3>5. Radius' = radius[job[p]]
      BY <3>1, <3>4 DEF Radius, ReadTheme, FirstOf
    <3> QED
      BY <3>1, <3>5 DEF IInv, RadiusTaken
  <2>7. CASE ThemePersistent(p)
    BY <2>7 DEF ThemePersistent, WriteAtomic, Proceed, End, GoTo, IInv, TypeOK
  <2>8. CASE Crash(p)
    BY <2>8 DEF Crash, End, GoTo, IInv, TypeOK
  <2> QED
    BY <2>1, <2>3, <2>4, <2>5, <2>6, <2>7, <2>8
       DEF Step, WriteWallpaper, WriteTheme, Begin
<1> QED
  BY <1>1, Inductive, PTL DEF Spec, RadiusKept
=============================================================================
