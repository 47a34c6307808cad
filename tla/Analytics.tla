----------------------------- MODULE Analytics ------------------------------
(***************************************************************************)
(* The statistics of the gateway (analytics.go): connections and DNS       *)
(* queries are counted per hour under a lock, the oldest hours are pruned, *)
(* and the counts are saved by the background goroutine and by Clear.      *)
(*                                                                         *)
(* The three counts of an hour are one count, and topDomains, which        *)
(* changes under the same lock and is never pruned, is left out.  The hour *)
(* of a record is any hour: the clock of a gateway may be set back.        *)
(***************************************************************************)
EXTENDS Naturals, FiniteSets

CONSTANTS
    Hours,             \* hours as their keys sort: a set of numbers
    MaxHourlyBuckets,  \* hours that are kept
    Recorders,         \* bound: goroutines that count at the same time
    MaxCount,          \* bound: count of an hour
    Torn               \* content of a file that does not parse

VARIABLES
    hourly,   \* as.hourly: a function from some hours to their counts
    isDirty,
    marking,  \* recorders that have counted but not yet set isDirty
    spc,      \* where each saver is
    data,     \* the counts the saver has encoded
    disk,     \* content of savePath
    excuse    \* history: what has gone wrong with saving since a saver last
              \* encoded with no other save under way (see UnsavedIsExplained)

aVars == <<hourly, isDirty, marking, spc, data, disk, excuse>>

\* Functions from at most MaxHourlyBuckets hours to counts.
Counts ==
    UNION {[H -> 1 .. MaxCount] :
              H \in {S \in SUBSET Hours :
                       IsFiniteSet(S) /\ Cardinality(S) <= MaxHourlyBuckets}}

\* What the proofs need of the constants.
ASSUME AAssumption ==
    /\ Hours \subseteq Nat
    /\ MaxHourlyBuckets \in Nat
    /\ MaxCount \in Nat \ {0}
    /\ Torn \notin Counts

Savers == {"background", "clear"}
NoCounts == [h \in {} |-> 0]

\* The savers that have encoded and not yet replaced the file.
InHand == {s \in Savers : spc[s] \in {"unmark", "write", "shared"}}
-----------------------------------------------------------------------------
(* Counting *)

\* Mutant: the newest hours are deleted.
KeptOldest(m) ==
    {h \in DOMAIN m : Cardinality({k \in DOMAIN m : k < h}) < MaxHourlyBuckets}

\* pruneOldBucketsLocked: the keys sort as the hours do; the first are deleted.
Kept(m) ==
    {h \in DOMAIN m : Cardinality({k \in DOMAIN m : k > h}) < MaxHourlyBuckets}

Prune(m) == [h \in Kept(m) |-> m[h]]

\* A new hour is pruned with the others before it is counted, and an hour
\* that was pruned at once is counted in vain.
Counted(m, h) ==
    IF h \in DOMAIN m THEN [m EXCEPT ![h] = @ + 1]
    ELSE Prune([k \in DOMAIN m \cup {h} |-> IF k = h THEN 1 ELSE m[k]])

\* RecordDNSQuery, RecordTCPConn or RecordUDPConn up to the unlock.
Record(r, h) ==
    /\ r \notin marking
    /\ h \in DOMAIN hourly => hourly[h] < MaxCount
    /\ hourly' = Counted(hourly, h)
    /\ marking' = marking \cup {r}
    /\ UNCHANGED <<isDirty, spc, data, disk, excuse>>

\* Mutant: only the DNS counter sets the mark.
MarkForgotten(r) ==
    /\ r \in marking
    /\ marking' = marking \ {r}
    /\ UNCHANGED <<hourly, isDirty, spc, data, disk, excuse>>

Mark(r) ==
    /\ r \in marking
    /\ marking' = marking \ {r}
    /\ isDirty' = TRUE
    /\ UNCHANGED <<hourly, spc, data, disk, excuse>>
-----------------------------------------------------------------------------
(* Saving *)

\* The WebUI clears the statistics, ...
ClearMaps ==
    /\ spc["clear"] = "idle"
    /\ hourly' = NoCounts
    /\ spc' = [spc EXCEPT !["clear"] = "mark"]
    /\ UNCHANGED <<isDirty, marking, data, disk, excuse>>

\* ... sets the mark and saves.
ClearMarks ==
    /\ spc["clear"] = "mark"
    /\ isDirty' = TRUE
    /\ spc' = [spc EXCEPT !["clear"] = "check"]
    /\ UNCHANGED <<hourly, marking, data, disk, excuse>>

\* saveToFileIfDirty: on the ticker or the end of the context, or in Clear.
SaveCheck(s) ==
    /\ spc[s] = IF s = "clear" THEN "check" ELSE "idle"
    /\ spc' = [spc EXCEPT ![s] = IF isDirty THEN "encode" ELSE "idle"]
    /\ UNCHANGED <<hourly, isDirty, marking, data, disk, excuse>>

\* The counts are encoded under the read lock.
Encode(s) ==
    /\ spc[s] = "encode"
    /\ spc' = [spc EXCEPT ![s] = "unmark"]
    /\ data' = [data EXCEPT ![s] = hourly]
    /\ excuse' = IF InHand = {} THEN {} ELSE excuse \cup {"raced"}
    /\ UNCHANGED <<hourly, isDirty, marking, disk>>

\* The mark is cleared, also that of a count taken since the encoding.
Unmark(s) ==
    /\ spc[s] = "unmark"
    /\ isDirty' = FALSE
    /\ spc' = [spc EXCEPT ![s] = "write"]
    /\ excuse' = excuse \cup (IF hourly # data[s] THEN {"window"} ELSE {})
    /\ UNCHANGED <<hourly, marking, data, disk>>

\* WriteFile and Rename.  Of two savers, which share the temporary file, the
\* first to rename takes whatever the two have written by then; the other may
\* go on writing to the renamed file, and its own Rename may fail.
Replace(s) ==
    /\ spc[s] \in {"write", "shared"}
    /\ LET others == {o \in Savers \ {s} : spc[o] \in {"write", "shared"}}
       IN  /\ disk' \in {data[s]}
                 \cup (IF others # {} THEN {data[o] : o \in others} \cup {Torn} ELSE {})
                 \cup (IF spc[s] = "shared" THEN {disk, Torn} ELSE {})
           /\ spc' = [o \in Savers |-> IF o = s THEN "idle"
                                       ELSE IF o \in others THEN "shared" ELSE spc[o]]
    /\ data' = [data EXCEPT ![s] = NoCounts]
    /\ UNCHANGED <<hourly, isDirty, marking, excuse>>

\* WriteFile or Rename fails: the save is over, the mark stays cleared.
ReplaceFails(s) ==
    /\ spc[s] \in {"write", "shared"}
    /\ spc' = [spc EXCEPT ![s] = "idle"]
    /\ data' = [data EXCEPT ![s] = NoCounts]
    /\ excuse' = excuse \cup {"failed"}
    /\ UNCHANGED <<hourly, isDirty, marking, disk>>

\* loadFromFile: what a file that parses holds, else nothing.
Loaded(d) == IF d = Torn THEN NoCounts ELSE Prune(d)

\* The process ends, wherever its goroutines are: main does not wait for the
\* background goroutine.  InitAnalytics loads what the file holds.
Restart ==
    /\ hourly' = Loaded(disk)
    /\ isDirty' = FALSE
    /\ marking' = {}
    /\ spc' = [s \in Savers |-> "idle"]
    /\ data' = [s \in Savers |-> NoCounts]
    /\ excuse' = {}
    /\ UNCHANGED disk
-----------------------------------------------------------------------------
AInit ==
    /\ hourly = NoCounts
    /\ isDirty = FALSE
    /\ marking = {}
    /\ spc = [s \in Savers |-> "idle"]
    /\ data = [s \in Savers |-> NoCounts]
    /\ disk = Torn  \* no file yet: nothing is loaded either
    /\ excuse = {}

ANext ==
    \/ \E r \in Recorders : \/ \E h \in Hours : Record(r, h)
                            \/ Mark(r)
    \/ ClearMaps \/ ClearMarks
    \/ \E s \in Savers : SaveCheck(s) \/ Encode(s) \/ Unmark(s) \/ Replace(s) \/ ReplaceFails(s)
    \/ Restart

ASpec == AInit /\ [][ANext]_aVars
-----------------------------------------------------------------------------
(* Properties *)

\* Every variable keeps its type; no more hours than MaxHourlyBuckets are
\* kept, in memory or in the file.
ATypeOK ==
    /\ hourly \in Counts
    /\ isDirty \in BOOLEAN
    /\ excuse \subseteq {"window", "failed", "raced"}
    /\ marking \subseteq Recorders
    /\ spc \in [Savers -> {"idle", "mark", "check", "encode", "unmark", "write", "shared"}]
    /\ data \in [Savers -> Counts]
    /\ disk \in Counts \cup {Torn}

\* Counting never costs a newer hour: an hour that a record makes the store
\* drop (pruneOldBucketsLocked) is older than all it keeps, also when the
\* clock has gone back and the record is for an hour that is older still.
NewestKept ==
    [][(\E r \in Recorders : marking' = marking \cup {r} /\ r \notin marking)
          => \A h \in DOMAIN hourly \ DOMAIN hourly' : \A k \in DOMAIN hourly' : h < k]_aVars

\* Counts that the file lacks are marked for the next save, about to be
\* marked, or being saved.  If they are not, so that only a later count would
\* save them, one of three things has happened since a save last began alone: a
\* count or Clear came between the encoding and Store(false), WriteFile or
\* Rename failed after it, or Clear and the background goroutine were saving
\* at the same time.
UnsavedIsExplained ==
    hourly # Loaded(disk) =>
        \/ isDirty \/ marking # {} \/ spc["clear"] = "mark"
        \/ InHand # {}
        \/ excuse # {}
=============================================================================
