---------------------------- MODULE PackageWriter ----------------------------
(***************************************************************************)
(* The prepare command of source_release_cli.py: it makes a directory,     *)
(* writes three receipts and then a marker into it, and reports.  It may   *)
(* fail or be killed at any step, two may run for one directory, and the   *)
(* power may go.  A name is there after a power cut only when its          *)
(* directory was synced, bytes only when the file was; names of which none *)
(* was synced come back in the order in which they were made.              *)
(***************************************************************************)
EXTENDS Integers, Sequences, Functions, TLC

CONSTANTS
    Writers,        \* processes that prepare a package of the same name
    Receipts,       \* the receipts, in the order they are written
    NoDirectory,    \* a model value
    MaxCuts         \* bound: power cuts

Marker == ".complete"
Parts  == Append(Receipts, Marker)

\* What the directory may hold: some of the names, each with its writer.
Directories ==
    UNION {[names -> [by : Writers, whole : BOOLEAN]] : names \in SUBSET Range(Parts)}

ASSUME PackageWriterAssumption ==
    /\ MaxCuts \in Nat
    /\ Receipts \in Seq(STRING) /\ Marker \notin Range(Receipts)
    /\ NoDirectory \notin Directories

VARIABLES
    directory,      \* the files, by name: who wrote it and whether all of it is there
    since,          \* what the directory may be after a power cut
    writer,         \* where each process is
    reported,       \* processes that reported a package
    undone,         \* a cleanup began after the marker was made
    cuts

packageVars == <<directory, since, writer, reported, undone, cuts>>

\* A file by one writer, all of it or not.
File(w, whole) == [by |-> w, whole |-> whole]

There == directory # NoDirectory

Has(files, name) == files # NoDirectory /\ name \in DOMAIN files

WholeBy(w) == \A name \in Range(Parts) : Has(directory, name) /\ directory[name] = File(w, TRUE)

At(w)          == writer[w].at
Busy(w)        == At(w) \notin {"idle", "ended"}
GoTo(w, place) == writer' = [writer EXCEPT ![w].at = place]

\* A name comes or goes; until a sync, a power cut may bring back what was before.
Become(files) == directory' = files /\ since' = since \cup {files}

-----------------------------------------------------------------------------
(* _write_package_exclusive                                                *)

\* Mutant: mkdir(exist_ok=True).
MayMakeAnyway == TRUE

\* mkdir
MayMake == ~There

\* A directory of that name is refused, and left alone.
MakeDirectory(w) ==
    /\ At(w) = "idle"
    /\ IF MayMake THEN Become(IF There THEN directory ELSE << >>) /\ GoTo(w, "create")
                  ELSE GoTo(w, "ended") /\ UNCHANGED <<directory, since>>
    /\ UNCHANGED <<reported, undone, cuts>>

\* _write_durable_exclusive opens a name that must be new,
Create(w) ==
    /\ At(w) = "create"
    /\ LET name == Parts[writer[w].part]
       IN  /\ There /\ ~Has(directory, name)
           /\ Become([n \in DOMAIN directory \cup {name} |->
                          IF n = name THEN File(w, FALSE) ELSE directory[n]])
    /\ GoTo(w, "write")
    /\ UNCHANGED <<reported, undone, cuts>>

\* writes, and syncs the file: its bytes stay wherever its name does.
Write(w) ==
    /\ At(w) = "write"
    /\ LET name          == Parts[writer[w].part]
           Filled(files) == IF Has(files, name) /\ files[name] = File(w, FALSE)
                            THEN [files EXCEPT ![name] = File(w, TRUE)] ELSE files
       IN  directory' = Filled(directory) /\ since' = {Filled(files) : files \in since}
    /\ IF writer[w].part = Len(Parts) THEN GoTo(w, "sync")
       ELSE writer' = [writer EXCEPT ![w] = [at |-> "create", part |-> @.part + 1]]
    /\ UNCHANGED <<reported, undone, cuts>>

\* fsync of the directory: its names stay if it does.
SyncDirectory(w) ==
    /\ At(w) = "sync" /\ There
    /\ since' = {directory} \cup ({NoDirectory} \cap since)
    /\ GoTo(w, "sync parent")
    /\ UNCHANGED <<directory, reported, undone, cuts>>

\* fsync of the parent, then the command reports.
SyncParent(w) ==
    /\ At(w) = "sync parent"
    /\ since' = {directory} \cup (since \ {NoDirectory})
    /\ GoTo(w, "ended") /\ reported' = reported \cup {w}
    /\ UNCHANGED <<directory, undone, cuts>>

\* Any step may raise, and what was made is removed again.
Fail(w) ==
    /\ Busy(w) /\ At(w) # "cleanup"
    /\ GoTo(w, "cleanup")
    /\ undone' = (undone \/ Has(directory, Marker))
    /\ UNCHANGED <<directory, since, reported, cuts>>

\* rmtree, in no order,
Remove(w) ==
    /\ At(w) = "cleanup" /\ There
    /\ \/ \E name \in DOMAIN directory :
             Become([n \in DOMAIN directory \ {name} |-> directory[n]]) /\ UNCHANGED writer
       \/ DOMAIN directory = {} /\ Become(NoDirectory) /\ GoTo(w, "ended")
    /\ UNCHANGED <<reported, undone, cuts>>

\* ignoring errors: what cannot be removed stays.  A killed process removes nothing.
Die(w) ==
    /\ Busy(w) /\ GoTo(w, "ended")
    /\ UNCHANGED <<directory, since, reported, undone, cuts>>

-----------------------------------------------------------------------------
\* The power goes, and every process with it.
PowerCut ==
    /\ cuts < MaxCuts /\ cuts' = cuts + 1
    /\ \E files \in since : directory' = files /\ since' = {files}
    /\ writer' = [w \in Writers |-> IF Busy(w) THEN [writer[w] EXCEPT !.at = "ended"]
                                             ELSE writer[w]]
    /\ UNCHANGED <<reported, undone>>

\* A directory without its marker is no package: when nobody writes into it, it
\* is taken away, to prepare anew.
TakeAway ==
    /\ There /\ ~Has(directory, Marker) /\ \A w \in Writers : ~Busy(w)
    /\ Become(NoDirectory)
    /\ UNCHANGED <<writer, reported, undone, cuts>>

PackageInit ==
    /\ directory = NoDirectory /\ since = {NoDirectory}
    /\ writer = [w \in Writers |-> [at |-> "idle", part |-> 1]]
    /\ reported = {} /\ undone = FALSE /\ cuts = 0

PackageNext ==
    \/ \E w \in Writers :
          \/ MakeDirectory(w) \/ Create(w) \/ Write(w) \/ SyncDirectory(w) \/ SyncParent(w)
          \/ Fail(w) \/ Remove(w) \/ Die(w)
    \/ PowerCut \/ TakeAway

PackageSpec == PackageInit /\ [][PackageNext]_packageVars

-----------------------------------------------------------------------------
(* Properties.                                                             *)

Places == {"idle", "create", "write", "sync", "sync parent", "cleanup", "ended"}

\* What is there is one of the states that a power cut may leave.
PackageTypeOK ==
    /\ directory \in since /\ since \subseteq Directories \cup {NoDirectory}
    /\ writer \in [Writers -> [at : Places, part : 1 .. Len(Parts)]]
    /\ reported \subseteq Writers /\ undone \in BOOLEAN /\ cuts \in 0 .. MaxCuts

\* A package that prepare reported is there, whole and by that one process,
\* after any power cut and whatever other processes tried.  A directory with a
\* marker holds all receipts of one process, unless a cleanup of it began.
PackageSurvives ==
    /\ \A w \in reported : WholeBy(w)
    /\ Has(directory, Marker) /\ ~undone
       => \A name \in Range(Receipts) :
             Has(directory, name) /\ directory[name] = File(directory[Marker].by, TRUE)
=============================================================================
