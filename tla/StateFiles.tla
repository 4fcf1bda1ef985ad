----------------------------- MODULE StateFiles -----------------------------
(***************************************************************************)
(* The state files shared between processes (wyrd-state, state_files.rs):  *)
(* wallpaper.toml and theme.toml, each with a copy in the runtime, the     *)
(* persistent and the configuration directory.  Several processes write    *)
(* and read them without a lock; every copy is replaced by a rename of its *)
(* own (write_atomic), which may fail; a process may crash between two     *)
(* copies, and a reboot empties the runtime directory.                     *)
(*                                                                         *)
(* The content of a copy is the number of the write it comes from, 0 for   *)
(* an earlier session, or NoFile.  write_atomic is one step: the temporary *)
(* file it fills first has a name no one else uses and no one reads.       *)
(***************************************************************************)
EXTENDS Naturals

CONSTANTS
    Processes,  \* threads and processes that write
    MaxWrites,  \* bound on the writes
    Radii,      \* corner radii of a theme
    NoFile      \* a copy that is missing or does not parse

ASSUME WritesAreNatural == MaxWrites \in Nat
ASSUME NoFileIsNoWrite == NoFile \notin Nat

DefaultRadius == 8
ASSUME DefaultIsRadius == DefaultRadius \in Radii

Places == {"runtime", "persistent", "config"}
Writes == 1 .. MaxWrites
Contents == 0 .. MaxWrites \cup {NoFile}

\* What a process writes: a wallpaper, a blank wallpaper (no output, no primary,
\* no palette, colour mode "auto"), or a theme.
Kinds == {"wallpaper", "blank", "theme"}

Steps == {"idle", "wall_runtime", "wall_persistent", "wall_config", "radius",
          "theme_runtime", "theme_persistent"}

VARIABLES
    wallpaper,  \* place -> content of wallpaper.toml
    theme,      \* place -> content of theme.toml
    radius,     \* write -> radius in the theme it wrote
    kind,       \* write -> its kind
    pc,         \* process -> its next step
    job,        \* process -> the write it is at
    count,      \* writes begun
    ended,      \* history: writes that returned or crashed, and 0
    before,     \* history: write -> those that had ended when it began
    made,       \* history: write -> the steps whose copy it made for good
    alone       \* history: process -> nothing else ran since it began

files == <<wallpaper, theme, radius>>
history == <<ended, before, made, alone>>
vars == <<files, kind, pc, job, count, history>>

TypeOK ==
    /\ wallpaper \in [Places -> Contents]
    /\ theme \in [Places -> Contents]
    /\ radius \in [0 .. MaxWrites -> Radii]
    /\ kind \in [0 .. MaxWrites -> Kinds]
    /\ pc \in [Processes -> Steps]
    /\ job \in [Processes -> 0 .. MaxWrites]
    /\ count \in 0 .. MaxWrites
    /\ ended \subseteq 0 .. count
    /\ before \in [Writes -> SUBSET (0 .. MaxWrites)]
    /\ made \in [Writes -> SUBSET Steps]
    /\ alone \in [Processes -> BOOLEAN]

\* An earlier session left every copy, or there was none.
Init ==
    /\ \E c \in {0, NoFile} : wallpaper = [l \in Places |-> c] /\ theme = wallpaper
    /\ \E r \in Radii : radius = [w \in 0 .. MaxWrites |-> r]
    /\ kind = [w \in 0 .. MaxWrites |-> "wallpaper"]
    /\ pc = [p \in Processes |-> "idle"]
    /\ job = [p \in Processes |-> 0]
    /\ count = 0
    /\ ended = {0}
    /\ before = [w \in Writes |-> {}]
    /\ made = [w \in Writes |-> {}]
    /\ alone = [p \in Processes |-> FALSE]

-----------------------------------------------------------------------------
(* The readers *)

FirstOf(copies, a, b, c) ==
    IF copies[a] # NoFile THEN copies[a]
    ELSE IF copies[b] # NoFile THEN copies[b]
    ELSE copies[c]

\* read_theme_state and read_wallpaper_state: the first copy that parses.
ReadTheme == FirstOf(theme, "runtime", "persistent", "config")
ReadWallpaper == FirstOf(wallpaper, "runtime", "persistent", "config")

\* Mutant: the runtime copy comes first here too.
PersistedFromRuntime ==
    FirstOf([l \in Places |->
                IF wallpaper[l] # NoFile /\ kind[wallpaper[l]] = "blank" THEN NoFile
                ELSE wallpaper[l]],
            "runtime", "persistent", "config")

\* read_persisted_wallpaper_state passes over blank states.
ReadPersisted ==
    FirstOf([l \in Places |->
                IF wallpaper[l] # NoFile /\ kind[wallpaper[l]] = "blank" THEN NoFile
                ELSE wallpaper[l]],
            "persistent", "config", "runtime")

\* The radius of the theme on disk, or the default.
Radius == IF ReadTheme = NoFile THEN DefaultRadius ELSE radius[ReadTheme]

-----------------------------------------------------------------------------
(* The writers *)

GoTo(p, step) == pc' = [pc EXCEPT ![p] = step]

Begin(p, k, step) ==
    /\ pc[p] = "idle"
    /\ count < MaxWrites
    /\ count' = count + 1
    /\ kind' = [kind EXCEPT ![count + 1] = k]
    /\ job' = [job EXCEPT ![p] = count + 1]
    /\ GoTo(p, step)
    /\ before' = [before EXCEPT ![count + 1] = ended]
    /\ alone' = [q \in Processes |-> q = p /\ \A o \in Processes : pc[o] = "idle"]
    /\ UNCHANGED <<wallpaper, theme, ended, made>>

WriteWallpaper(p, k) ==
    /\ k # "theme"
    /\ Begin(p, k, "wall_runtime")
    /\ UNCHANGED radius

WriteTheme(p, r) ==
    /\ Begin(p, "theme", "theme_runtime")
    /\ radius' = [radius EXCEPT ![count + 1] = r]

\* The call returns, Ok or Err.
End(p) ==
    /\ GoTo(p, "idle")
    /\ job' = [job EXCEPT ![p] = 0]
    /\ alone' = [alone EXCEPT ![p] = FALSE]
    /\ ended' = ended \cup {job[p]}

Proceed(p, step) ==
    IF step = "idle" THEN End(p) ELSE GoTo(p, step) /\ UNCHANGED <<job, alone, ended>>

\* write_atomic replaces a copy, after which the call goes on to one step, or
\* fails and leaves it, after which the call goes on to another.
WriteAtomic(p, copies, place, onSuccess, onFailure) ==
    \/ /\ copies' = [copies EXCEPT ![place] = job[p]]
       /\ made' = [made EXCEPT ![job[p]] = @ \cup {pc[p]}]
       /\ Proceed(p, onSuccess)
    \/ /\ UNCHANGED <<copies, made>>
       /\ Proceed(p, onFailure)

WallpaperRuntime(p) ==
    /\ pc[p] = "wall_runtime"
    /\ WriteAtomic(p, wallpaper, "runtime", "wall_persistent", "wall_persistent")
    /\ UNCHANGED <<theme, radius, kind, count, before>>

\* The one copy that write_wallpaper_state needs: without it the call returns the
\* error, and the theme stays.
WallpaperPersistent(p) ==
    /\ pc[p] = "wall_persistent"
    /\ WriteAtomic(p, wallpaper, "persistent", "wall_config", "idle")
    /\ UNCHANGED <<theme, radius, kind, count, before>>

WallpaperConfig(p) ==
    /\ pc[p] = "wall_config"
    /\ WriteAtomic(p, wallpaper, "config", "radius", "radius")
    /\ UNCHANGED <<theme, radius, kind, count, before>>

\* Mutant: the theme of a wallpaper has the default radius.
TakeDefaultRadius(p) ==
    /\ pc[p] = "radius"
    /\ radius' = [radius EXCEPT ![job[p]] = DefaultRadius]
    /\ GoTo(p, "theme_runtime")
    /\ UNCHANGED <<wallpaper, theme, kind, job, count, history>>

\* Mutant: where no theme can be read, the radius is 0.
TakeRadiusOrZero(p) ==
    /\ pc[p] = "radius"
    /\ radius' = [radius EXCEPT ![job[p]] = IF ReadTheme = NoFile THEN 0 ELSE Radius]
    /\ GoTo(p, "theme_runtime")
    /\ UNCHANGED <<wallpaper, theme, kind, job, count, history>>

\* The theme of the wallpaper keeps the radius it reads.
TakeRadius(p) ==
    /\ pc[p] = "radius"
    /\ radius' = [radius EXCEPT ![job[p]] = Radius]
    /\ GoTo(p, "theme_runtime")
    /\ UNCHANGED <<wallpaper, theme, kind, job, count, history>>

\* write_theme_state returns an error without the runtime copy.
ThemeRuntime(p) ==
    /\ pc[p] = "theme_runtime"
    /\ WriteAtomic(p, theme, "runtime", "theme_persistent", "idle")
    /\ UNCHANGED <<wallpaper, radius, kind, count, before>>

ThemePersistent(p) ==
    /\ pc[p] = "theme_persistent"
    /\ WriteAtomic(p, theme, "persistent", "idle", "idle")
    /\ UNCHANGED <<wallpaper, radius, kind, count, before>>

-----------------------------------------------------------------------------
(* Crashes and reboots *)

Crash(p) ==
    /\ pc[p] # "idle"
    /\ End(p)
    /\ UNCHANGED <<files, kind, count, before, made>>

\* The runtime directory is empty after a reboot: a theme without a persistent
\* copy is gone.
Reboot ==
    /\ wallpaper' = [wallpaper EXCEPT !["runtime"] = NoFile]
    /\ theme' = [theme EXCEPT !["runtime"] = NoFile]
    /\ ended' = ended \cup {job[p] : p \in Processes}
    /\ pc' = [p \in Processes |-> "idle"]
    /\ job' = [p \in Processes |-> 0]
    /\ alone' = [p \in Processes |-> FALSE]
    /\ made' = [w \in Writes |->
           made[w] \ (IF "theme_persistent" \in made[w] THEN {} ELSE {"theme_runtime"})]
    /\ UNCHANGED <<radius, kind, count, before>>

Step(p) ==
    \/ \E k \in Kinds : WriteWallpaper(p, k)
    \/ \E r \in Radii : WriteTheme(p, r)
    \/ WallpaperRuntime(p) \/ WallpaperPersistent(p) \/ WallpaperConfig(p)
    \/ TakeRadius(p) \/ ThemeRuntime(p) \/ ThemePersistent(p)
    \/ Crash(p)

Next == (\E p \in Processes : Step(p)) \/ Reboot

Spec == Init /\ [][Next]_vars

-----------------------------------------------------------------------------
(* Properties *)

\* A wallpaper whose write returned Ok (its persistent copy is made) is not undone:
\* read_wallpaper_state never gives one whose write had ended before, whatever
\* writes overlap, fail or crash later and through reboots.  This needs the
\* runtime copy, whose failure the writer ignores.
OkWallpaperIsRead ==
    \A w \in Writes :
        {"wall_runtime", "wall_persistent"} \subseteq made[w] => ReadWallpaper \notin before[w]

\* The same of read_persisted_wallpaper_state.  A blank state makes it look
\* further, and what it finds then depends on the copies that may fail.
OkWallpaperPersists ==
    \A w \in Writes :
        /\ "wall_persistent" \in made[w]
        /\ \/ kind[wallpaper["persistent"]] # "blank"
           \/ {"wall_runtime", "wall_config"} \subseteq made[w]
        => ReadPersisted \notin before[w]

\* A theme written to the runtime directory is not undone, but for a reboot
\* that finds no persistent copy of it.
OkThemeIsRead ==
    \A w \in Writes : "theme_runtime" \in made[w] => ReadTheme \notin before[w]

\* What a successful write left is not undone, for any reader.
WritesAreKept == OkWallpaperIsRead /\ OkWallpaperPersists /\ OkThemeIsRead

\* A wallpaper write that runs alone leaves the radius of the theme as it is.
RadiusKept ==
    [][\A p \in Processes :
        alone[p] /\ kind[job[p]] # "theme" /\ pc[p] # "idle" /\ pc'[p] # pc[p] /\ pc'[p] # "idle"
        => Radius' = Radius]_vars
=============================================================================
