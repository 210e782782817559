----------------------------- MODULE Migrations -----------------------------
(***************************************************************************)
(* The migrations of a start (podcast_agent/migrate.py): every episode is  *)
(* given its origin, in batches found anew until one is short, every       *)
(* archive walk under way the anchor its floor is measured from, and every *)
(* digest document the files of its week it does not name.  They run       *)
(* before anything else may read the documents, one write at a time, and   *)
(* again at the next start when this one dies half-way.  The files of a    *)
(* week are numbered in the order they were generated in.                  *)
(***************************************************************************)
EXTENDS FiniteSets, FiniteSetsExt, Functions, Integers, Sequences

CONSTANTS
    Legacy,         \* episodes from before they had an origin
    InArchive,      \* those of them with an archive_month
    Shows,
    Walks,          \* Walks[s]: the walk recorded for show s before the first start
    Window,         \* Window[s]: the months of archive in force for s
    Months,         \* backfill.months of the configuration file
    Weeks,          \* the weeks of digest files
    Files,          \* Files[w]: the files of week w on disk
    Documents,      \* Documents[w]: the document of week w before the first start
    BATCH,
    NoMonth,
    NoFile          \* no document, or none that names a file

ASSUME MigrationsAssumption ==
    /\ IsFiniteSet(Legacy) /\ InArchive \subseteq Legacy
    /\ Months \in Nat \ {0} /\ BATCH \in Nat \ {0}
    /\ NoMonth \notin Nat
    /\ Window \in [Shows -> Nat \ {0}]
    /\ Walks \in [Shows -> [cursor   : Nat \cup {NoMonth},
                            anchor   : Nat \cup {NoMonth},
                            complete : BOOLEAN]]
    /\ NoFile \notin Nat
    /\ Files \in [Weeks -> SUBSET Nat]
    /\ Documents \in [Weeks -> [runs : Seq(Nat), file : Nat \cup {NoFile}]]
    /\ \A w \in Weeks :
          /\ IsFiniteSet(Files[w])
          /\ Documents[w].runs \in Seq(Files[w])
          /\ Documents[w].file \in Files[w] \cup {NoFile}
          /\ Documents[w].runs # <<>> => Documents[w].file \in Range(Documents[w].runs)

VARIABLES
    origin,     \* origin[e]: none, routine or backfill
    walks,      \* walks[s]: cursor, anchor and completeness of the document
    digests,    \* digests[w]: the runs and the newest file the document of w names
    migrating   \* the local variables of run_all

migration_vars == <<origin, walks, digests, migrating>>

NoDocument == [runs |-> <<>>, file |-> NoFile]

NotMigrating == [at |-> "off", batch |-> {}, last |-> FALSE]

Bare == {e \in Legacy : origin[e] = "none"}

InFlight(walk) == walk.cursor # NoMonth /\ ~walk.complete

Unanchored == {s \in Shows : InFlight(walks[s]) /\ walks[s].anchor = NoMonth}

MigrationsTypeOK ==
    /\ origin \in [Legacy -> {"none", "routine", "backfill"}]
    /\ DOMAIN walks = Shows
    /\ DOMAIN digests = Weeks
    /\ migrating.at \in {"off", "find", "origins", "anchors", "files"}
    /\ migrating.batch \subseteq Legacy \cup Shows \cup Weeks

MigrationsInit ==
    /\ origin = [e \in Legacy |-> "none"]
    /\ walks = Walks
    /\ digests = Documents
    /\ migrating = NotMigrating

MigrationsBegin == migrating' = [NotMigrating EXCEPT !.at = "find"]

\* Mutant: a batch that is full is the last one, too.
Short_Full(batch) == Cardinality(batch) <= BATCH

Short(batch) == Cardinality(batch) < BATCH

\* Every pass asks again for what has no origin.
FindBare ==
    /\ migrating.at = "find"
    /\ \E batch \in kSubset(Min({BATCH, Cardinality(Bare)}), Bare) :
          migrating' = [at |-> "origins", batch |-> batch, last |-> Short(batch)]
    /\ UNCHANGED <<origin, walks, digests>>

OriginOf(e) == IF e \in InArchive THEN "backfill" ELSE "routine"

GiveOrigin(e) ==
    /\ migrating.at = "origins" /\ e \in migrating.batch
    /\ origin' = [origin EXCEPT ![e] = OriginOf(e)]
    /\ migrating' = [migrating EXCEPT !.batch = @ \ {e}]
    /\ UNCHANGED <<walks, digests>>

\* The shows are read once.
BatchDone ==
    /\ migrating.at = "origins" /\ migrating.batch = {}
    /\ IF migrating.last
       THEN migrating' = [migrating EXCEPT !.at = "anchors", !.batch = Unanchored]
       ELSE MigrationsBegin
    /\ UNCHANGED <<origin, walks, digests>>

\* As many months after the cursor as the file's window has: the floor is the cursor.
Anchored(walk) == [walk EXCEPT !.anchor = walk.cursor + Months]

AnchorWalk(s) ==
    /\ migrating.at = "anchors" /\ s \in migrating.batch
    /\ walks' = [walks EXCEPT ![s] = Anchored(@)]
    /\ migrating' = [migrating EXCEPT !.batch = @ \ {s}]
    /\ UNCHANGED <<origin, digests>>

\* The weeks that have a document.
AnchorsDone ==
    /\ migrating.at = "anchors" /\ migrating.batch = {}
    /\ migrating' = [migrating EXCEPT !.at = "files",
                          !.batch = {w \in Weeks : digests[w] # NoDocument}]
    /\ UNCHANGED <<origin, walks, digests>>

InOrder(files) ==
    CHOOSE runs \in [1..Cardinality(files) -> files] :
        /\ Range(runs) = files
        /\ \A i, j \in DOMAIN runs : i < j => runs[i] < runs[j]

\* A document from before it listed its runs names one file; the files no document
\* names join it, in the order they were generated in.
Adopted(w) ==
    LET named   == Range(digests[w].runs) \cup {digests[w].file}
        runs    == IF digests[w].runs = <<>> THEN {digests[w].file} \ {NoFile}
                   ELSE Range(digests[w].runs)
    IN  IF Files[w] \subseteq named THEN digests[w]
        ELSE [digests[w] EXCEPT !.runs = InOrder(runs \cup (Files[w] \ named))]

AdoptFiles(w) ==
    /\ migrating.at = "files" /\ w \in migrating.batch
    /\ digests' = [digests EXCEPT ![w] = Adopted(w)]
    /\ migrating' = [migrating EXCEPT !.batch = @ \ {w}]
    /\ UNCHANGED <<origin, walks>>

MigrationStep ==
    \/ FindBare \/ BatchDone \/ AnchorsDone
    \/ \E e \in Legacy : GiveOrigin(e)
    \/ \E s \in Shows : AnchorWalk(s)
    \/ \E w \in Weeks : AdoptFiles(w)

MigrationsOver ==
    /\ migrating.at = "files" /\ migrating.batch = {}
    /\ migrating' = NotMigrating
    /\ UNCHANGED <<origin, walks, digests>>

-----------------------------------------------------------------------------
(* What a start leaves                                                     *)

\* Each document is what one run of the migrations makes of it, however often they were
\* begun.
Migrated ==
    /\ \A e \in Legacy : origin[e] = OriginOf(e)
    /\ \A s \in Shows :
          walks[s] = IF InFlight(Walks[s]) /\ Walks[s].anchor = NoMonth
                     THEN Anchored(Walks[s]) ELSE Walks[s]
    /\ \A w \in Weeks : Documents[w] # NoDocument =>
          /\ Files[w] \subseteq Range(digests[w].runs) \cup {digests[w].file}
          /\ Documents[w] # digests[w] => digests[w].runs = InOrder(Files[w])

\* The repaired walk finishes the month it is on and stops: its floor is its cursor.
ResumesAtCursor ==
    \A s \in Shows : InFlight(Walks[s]) /\ Walks[s].anchor = NoMonth
                        => walks[s].anchor - Window[s] = walks[s].cursor

\* Every digest file on disk is in a document (migrate.py:76).
FilesAreAdopted ==
    \A w \in Weeks : Files[w] \subseteq Range(digests[w].runs) \cup {digests[w].file}
=============================================================================
