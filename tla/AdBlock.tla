------------------------------ MODULE AdBlock -------------------------------
(***************************************************************************)
(* The AdBlock filter (adblock.go): NewAdBlocker installs an empty filter  *)
(* at boot and at every reload, whose goroutine reads the lists with the   *)
(* write lock held; IsBlocked, which LookupIP of the resolver calls, looks *)
(* for a name and the domains above it.  Only the filter of the boot is    *)
(* read again every day.                                                   *)
(*                                                                         *)
(* A name is the sequence of its labels in lower case and without trailing *)
(* dot: loadFile, loadURL and IsBlocked bring names to that form.          *)
(***************************************************************************)
EXTENDS Naturals, Sequences

CONSTANTS
    Lists,       \* the lists of the configuration in order, each a "file" or a "url"
    Editions,    \* what the lists may hold: per list its names
    ErrorPage,   \* the names loadURL finds in a server's error page
    Names,       \* names that are looked up
    Lookups,     \* bound: calls of IsBlocked at the same time
    MaxFilters   \* bound: filters installed

VARIABLES
    up,       \* external: whether the lists can be read
    edition,  \* external: what the lists hold
    current,  \* globalAdBlocker: the filters are numbered
    enabled,  \* per filter whether its configuration enables it
    blocked,  \* per filter ab.blocked
    load,     \* per filter where loadAll is: 0, or the list it reads next
    wait,     \* per call the filter whose lock it waits for, or 0
    asked,    \* per call its name
    answer,   \* per call its last answer
    offered   \* history: per filter what the lists have held since it was installed

listVars == <<up, edition>>
dVars == <<listVars, current, enabled, blocked, load, wait, asked, answer, offered>>

NamesOf(e) == UNION {e[i] : i \in 1 .. Len(Lists)}
AllNames == UNION {NamesOf(e) : e \in Editions} \cup ErrorPage

\* What the proofs need of the constants.
ASSUME DAssumption ==
    /\ Lists \in Seq({"file", "url"})
    /\ Editions # {}
    /\ Names \subseteq Seq(STRING)
    /\ MaxFilters \in Nat \ {0}

Filters == 1 .. MaxFilters
Boot == 1
-----------------------------------------------------------------------------
(* Reading the lists *)

\* External: the server of the lists goes down or comes back.
UpChanges ==
    /\ up' = ~up
    /\ UNCHANGED <<edition, current, enabled, blocked, load, wait, asked, answer, offered>>

\* External: their maintainers add names and remove others.
ListsChange(e) ==
    /\ e # edition
    /\ edition' = e
    /\ offered' = [f \in Filters |-> offered[f] \cup (IF f <= current THEN NamesOf(e) ELSE {})]
    /\ UNCHANGED <<up, current, enabled, blocked, load, wait, asked, answer>>

\* Mutant: the new filter takes over the map of the old one.
NewAdBlockerInherits(on) ==
    /\ current < MaxFilters
    /\ current' = current + 1
    /\ enabled' = [enabled EXCEPT ![current'] = on]
    /\ load' = [load EXCEPT ![current'] = IF on /\ Lists # <<>> THEN 1 ELSE 0]
    /\ blocked' = [blocked EXCEPT ![current'] = blocked[current]]
    /\ offered' = [offered EXCEPT ![current'] = NamesOf(edition)]
    /\ UNCHANGED <<listVars, wait, asked, answer>>

\* NewAdBlocker at a reload: the lists of an enabled filter are read by a
\* goroutine of its own.
NewAdBlocker(on) ==
    /\ current < MaxFilters
    /\ current' = current + 1
    /\ enabled' = [enabled EXCEPT ![current'] = on]
    /\ load' = [load EXCEPT ![current'] = IF on /\ Lists # <<>> THEN 1 ELSE 0]
    /\ offered' = [offered EXCEPT ![current'] = NamesOf(edition)]
    /\ UNCHANGED <<listVars, blocked, wait, asked, answer>>

\* loadAll goes on to the next list; after the last one it unlocks.
AfterList(f) == IF load[f] = Len(Lists) THEN 0 ELSE load[f] + 1

\* loadFile or loadURL adds the names of a list.  No name is ever deleted: one
\* that the list has dropped stays.
ReadList(f) ==
    /\ load[f] > 0 /\ up
    /\ blocked' = [blocked EXCEPT ![f] = @ \cup edition[load[f]]]
    /\ load' = [load EXCEPT ![f] = AfterList(f)]
    /\ UNCHANGED <<listVars, current, enabled, wait, asked, answer, offered>>

\* Mutant: a failed download leaves the lock behind.
ReadFailsLocked(f, part) ==
    /\ load[f] > 0 /\ ~up
    /\ part \subseteq edition[load[f]]
    /\ blocked' = [blocked EXCEPT ![f] = @ \cup part]
    /\ UNCHANGED <<listVars, current, enabled, load, wait, asked, answer, offered>>

\* The file does not open, the server does not answer in time, the list breaks
\* off after some of its names, or the server answers with an error, whose
\* page is read as a list (the status is not looked at).
ReadFails(f, part) ==
    /\ load[f] > 0 /\ ~up
    /\ \/ part \subseteq edition[load[f]]
       \/ Lists[load[f]] = "url" /\ part \subseteq ErrorPage
    /\ blocked' = [blocked EXCEPT ![f] = @ \cup part]
    /\ load' = [load EXCEPT ![f] = AfterList(f)]
    /\ UNCHANGED <<listVars, current, enabled, wait, asked, answer, offered>>

\* Mutant: a filter that has names is not read again.
RefreshIfEmpty ==
    /\ enabled[Boot] /\ load[Boot] = 0 /\ blocked[Boot] = {}
    /\ load' = [load EXCEPT ![Boot] = 1]
    /\ UNCHANGED <<listVars, current, enabled, blocked, wait, asked, answer, offered>>

\* The ticker of StartAutoRefresh, which main starts for the boot's filter.
\* The readers that waited for the last writer have the lock before the next
\* one (sync.RWMutex).
Refresh ==
    /\ enabled[Boot] /\ load[Boot] = 0 /\ Lists # <<>>
    /\ \A c \in Lookups : wait[c] # Boot
    /\ load' = [load EXCEPT ![Boot] = 1]
    /\ UNCHANGED <<listVars, current, enabled, blocked, wait, asked, answer, offered>>
-----------------------------------------------------------------------------
(* Looking up *)

\* The walk of IsBlocked: the name from its i-th label on, then from the next.
Blocks(S, name) ==
    LET walk[i \in 1 .. Len(name)] ==
            SubSeq(name, i, Len(name)) \in S \/ (i < Len(name) /\ walk[i + 1])
    IN  name # <<>> /\ walk[1]

\* IsBlocked reads the size of the map without the lock: nothing is blocked
\* by a filter that has no names yet.  Else it waits for the read lock.
IsBlocked(c, name) ==
    /\ wait[c] = 0
    /\ asked' = [asked EXCEPT ![c] = name]
    /\ IF blocked[current] = {}
       THEN answer' = [answer EXCEPT ![c] = FALSE] /\ UNCHANGED wait
       ELSE wait' = [wait EXCEPT ![c] = current] /\ UNCHANGED answer
    /\ UNCHANGED <<listVars, current, enabled, blocked, load, offered>>

\* loadAll does not hold the lock: the name is looked up.
Answer(c) ==
    /\ wait[c] # 0 /\ load[wait[c]] = 0
    /\ answer' = [answer EXCEPT ![c] = Blocks(blocked[wait[c]], asked[c])]
    /\ wait' = [wait EXCEPT ![c] = 0]
    /\ UNCHANGED <<listVars, current, enabled, blocked, load, asked, offered>>
-----------------------------------------------------------------------------
\* Before loadAll of the boot's filter.
DInit ==
    /\ up \in BOOLEAN
    /\ edition \in Editions
    /\ current = Boot
    /\ enabled = [f \in Filters |-> f = Boot]
    /\ blocked = [f \in Filters |-> {}]
    /\ load = [f \in Filters |-> IF f = Boot /\ Lists # <<>> THEN 1 ELSE 0]
    /\ wait = [c \in Lookups |-> 0]
    /\ asked = [c \in Lookups |-> <<>>]
    /\ answer = [c \in Lookups |-> FALSE]
    /\ offered = [f \in Filters |-> IF f = Boot THEN NamesOf(edition) ELSE {}]

ReadEnds(f) == ReadList(f) \/ \E part \in SUBSET AllNames : ReadFails(f, part)

DNext ==
    \/ UpChanges \/ \E e \in Editions : ListsChange(e)
    \/ \E on \in BOOLEAN : NewAdBlocker(on)
    \/ \E f \in Filters : ReadEnds(f)
    \/ Refresh
    \/ \E c \in Lookups : Answer(c) \/ \E name \in Names : IsBlocked(c, name)

DSpec == DInit /\ [][DNext]_dVars

\* A list that is being read is read or times out, and a reader takes a lock
\* that is free.  The ticker fires and readers that keep coming do not starve
\* the writer: a pending Lock of sync.RWMutex holds new readers back.
DFairness ==
    /\ SF_dVars(Refresh)
    /\ \A f \in Filters : WF_dVars(ReadEnds(f))
    /\ \A c \in Lookups : WF_dVars(Answer(c))
-----------------------------------------------------------------------------
(* Properties *)

\* Every variable keeps its type.
DTypeOK ==
    /\ up \in BOOLEAN
    /\ edition \in Editions
    /\ current \in Filters
    /\ enabled \in [Filters -> BOOLEAN]
    /\ blocked \in [Filters -> SUBSET AllNames]
    /\ offered \in [Filters -> SUBSET AllNames]
    /\ load \in [Filters -> 0 .. Len(Lists)]
    /\ wait \in [Lookups -> 0 .. MaxFilters]
    /\ asked \in [Lookups -> Names \cup {<<>>}]
    /\ answer \in [Lookups -> BOOLEAN]

\* IsBlocked refuses a name only if it, or a domain above it, was on a list at
\* some time since the filter that answers was installed, or on an error page
\* that was read as a list: lists cut short add nothing else, and what was
\* removed from the lists before a reload does not outlive it, but for a call
\* that still waits for the old filter.
BlocksOnlyOffered ==
    [][\A c \in Lookups :
          wait[c] # 0 /\ wait'[c] = 0 /\ answer'[c] =>
              \E i \in 1 .. Len(asked[c]) :
                  SubSeq(asked[c], i, Len(asked[c])) \in offered[wait[c]] \cup ErrorPage]_dVars

\* IsBlocked, and LookupIP with it, waits for downloads but not for ever.
LookupsReturn == \A c \in Lookups : (wait[c] # 0) ~> (wait[c] = 0)

\* The daily refresh heals what failed and follows the lists: as long as no
\* reload replaces the boot's filter, it ends up with every name of every
\* list, once the lists can be read and stay as they are.
BootFilterHeals ==
    \A e \in Editions :
        [](current = Boot) /\ <>[](up /\ edition = e) => <>[](NamesOf(e) \subseteq blocked[Boot])
=============================================================================
