----------------------------- MODULE HoldAlerts -----------------------------
(***************************************************************************)
(* Who is told of a held withdrawal: the cloud watcher                     *)
(* (watcher/src/hold.ts), the owner's phone and the guardian's phone       *)
(* (app/lib/holdAlerts.ts, holdNotify.ts, holdGuard.ts), and the brakes    *)
(* the guardian pulls from an alert (app/app/hold/guard.tsx).              *)
(*                                                                         *)
(* The vault is HoldVault cut down to what these readers look at: its held *)
(* withdrawals, its wait, its waiting change and the ring of its record.   *)
(* Every reader takes the vault and the ring in two reads, and the chain   *)
(* may move between them. One reader moves in a behaviour: they share no   *)
(* state but the chain. Times are in units in which the marks of the plan  *)
(* are a few ticks apart.                                                  *)
(***************************************************************************)
EXTENDS Integers, Sequences, FiniteSets, FiniteSetsExt, SequencesExt

CONSTANTS
    MaxId,            \* withdrawals held in one behaviour
    Waits,            \* delay_secs the vault may have
    HOUR, HalfDay,    \* one hour and twelve
    QuarterDay,       \* six hours
    RingSize,         \* entries of the record the chain keeps (32)
    MaxMarks,         \* every_12h marks of one withdrawal looked back at (200)
    SEEN_CAP,         \* alerts the guardian's phone remembers (500)
    LastTick,         \* bound on the chain clock
    Stories           \* what may happen in a behaviour: its reader, the kinds of entry the
                      \* chain writes and how many, the failures and crashes

ASSUME AlertsAssumption ==
    /\ {MaxId, RingSize, MaxMarks, SEEN_CAP, LastTick} \subseteq Nat
    /\ {HOUR, HalfDay, QuarterDay} \subseteq Nat \ {0}
    /\ Waits \subseteq Nat \ {0}
    /\ \A s \in Stories :
        /\ s.reader \in {"watcher", "owner", "guardian"}
        /\ {s.entries, s.faults} \subseteq Nat

VARIABLES
    chain,    \* the vault and its record
    story,    \* the story of this behaviour
    scan,     \* its scan: where it stands and what it has read
    kept,     \* what it keeps between scans
    told,     \* the alerts given, and those given more than once
    brake,    \* the guardian's screen
    faults    \* what has gone wrong so far

alertVars == <<chain, story, scan, kept, told, brake, faults>>

HeldIds == 1 .. MaxId

-----------------------------------------------------------------------------
(* The vault                                                               *)

NoRow == [st |-> "none", held |-> 0, unlock |-> 0]

NoRows == [id \in HeldIds |-> NoRow]

NoLoosening == [on |-> FALSE, at |-> 0, to |-> 0]

\* The last RingSize of the entries.
Kept(log) == SubSeq(log, 1 + (IF Len(log) > RingSize THEN Len(log) - RingSize ELSE 0), Len(log))

Logs(c, kind, id) ==
    [c EXCEPT !.log = Kept(Append(@, [kind |-> kind, id |-> id, ts |-> c.clock])),
              !.total = @ + 1]

Waiting(rows) == {id \in HeldIds : rows[id].st = "pending"}

\* The story has room for an entry of this kind.
Room(kind) == chain.total < story.entries /\ kind \in story.kinds

\* withdraw, when it waits
Holds ==
    \E id \in HeldIds :
        /\ Room("HELD")
        /\ chain.rows[id].st = "none"
        /\ \A k \in 1 .. id - 1 : chain.rows[k].st # "none"
        /\ chain' = Logs([chain EXCEPT !.rows[id] = [st |-> "pending", held |-> chain.clock,
                                                     unlock |-> chain.clock + chain.delay]],
                         "HELD", id)

\* withdraw, when it is paid at once: its entry carries no withdrawal
PaysAtOnce == Room("AT_ONCE") /\ chain' = Logs(chain, "PAID", 0)

Settles(c, id, kind) == Logs([c EXCEPT !.rows[id].st = kind], kind, id)

\* execute, stop and skip
Ends ==
    \E id \in Waiting(chain.rows), kind \in {"PAID", "STOPPED", "SKIPPED"} :
        /\ Room(kind)
        /\ kind = "PAID" => chain.clock >= chain.rows[id].unlock
        /\ chain' = Settles(chain, id, kind)

Recovers(c) ==
    Logs([c EXCEPT !.rows = [id \in HeldIds |->
                                IF @[id].st = "pending" THEN [@[id] EXCEPT !.st = "RECOVERED"]
                                ELSE @[id]],
                  !.recovered = @ \union {c.clock}],
         "RECOVERED", 0)

Proposes ==
    /\ Room("CHANGE")
    /\ ~chain.change.on
    /\ \E to \in Waits :
        /\ to < chain.delay
        /\ chain' = Logs([chain EXCEPT !.change = [on |-> TRUE, at |-> chain.clock + chain.delay,
                                                   to |-> to]],
                         "CHANGE_PROPOSED", 0)

Applies ==
    /\ Room("CHANGE")
    /\ chain.change.on
    /\ chain.clock >= chain.change.at
    /\ chain' = Logs([chain EXCEPT !.delay = chain.change.to, !.change = NoLoosening],
                     "CHANGE_APPLIED", 0)

Ticks ==
    /\ chain.clock < LastTick
    /\ chain' = [chain EXCEPT !.clock = @ + 1]

ChainMoves ==
    /\ \/ Ticks \/ Holds \/ PaysAtOnce \/ Ends \/ Proposes \/ Applies
       \/ Room("RECOVERED") /\ chain' = Recovers(chain)
    /\ UNCHANGED <<story, scan, kept, told, brake, faults>>

-----------------------------------------------------------------------------
(* The plan of a withdrawal                                                *)

\* createdFromEntries: the time of the newest HELD entry of a withdrawal, if the ring has one.
HeldEntries(log, id) == {i \in DOMAIN log : log[i].kind = "HELD" /\ log[i].id = id}

\* createdAt of the watcher and holdCreatedAt of the phone
CreatedAt(log, row, id, delay) ==
    LET entries == HeldEntries(log, id) IN
    CASE entries # {} -> log[Max(entries)].ts
      [] entries = {} /\ row.unlock >= delay -> row.unlock - delay
      [] OTHER -> row.unlock

\* The marks both plans share. n counts the half days of an every_12h mark.
Mark(name, n, at) == [name |-> name, n |-> n, at |-> at]

Marks(created, unlock) ==
    {Mark("created", 0, created), Mark("1h", 0, created + HOUR),
     Mark("12h", 0, created + HalfDay)}
        \union {Mark("every_12h", n, created + n * HalfDay) : n \in 2 .. LastTick}
        \union {m \in {Mark("6h_before", 0, unlock - QuarterDay),
                       Mark("1h_before", 0, unlock - HOUR)} : m.at > created}

\* cadence: what the watcher has to say by now, at most MaxMarks half days back. Its keys
\* name the mark and not its time.
Cadence(id, row, created, now) ==
    LET past == (now - created) \div HalfDay IN
    {[id |-> id, name |-> m.name, n |-> m.n] : m \in
        {m \in Marks(created, row.unlock) :
            /\ m.at <= now \/ m.name = "created"
            /\ m.n > 0 => m.n > past - MaxMarks}}

\* holdAlertPlan: reminders stop at the end of the wait, which is announced itself. The keys
\* carry the time.
HoldAlertPlan(id, row, created) ==
    {[id |-> id, name |-> m.name, at |-> m.at] : m \in
        {m \in Marks(created, row.unlock) :
            m.name \in {"1h", "12h", "every_12h"} => m.at < row.unlock}
        \union {Mark("end", 0, row.unlock)}}

-----------------------------------------------------------------------------
(* The watcher                                                             *)

Idle == [at |-> "idle", rows |-> <<>>, delay |-> 0, keys |-> {}]

Faulty == faults < story.faults

Fails ==
    /\ Faulty
    /\ faults' = faults + 1

Tell(keys) ==
    told' = [once |-> told.once \union keys, again |-> told.again \union (told.once \cap keys)]

\* A run begins in a new container or in one that still has its file; the stored journal,
\* if there is one, replaces the file. A store that cannot be read leaves the file.
\* scanHoldVaults, hydrateLocalJournal
BeginScan ==
    /\ story.reader = "watcher"
    /\ scan.at = "idle"
    /\ scan' = [scan EXCEPT !.at = "vault"]
    /\ \E file \in {{}, kept.file} :
        \/ /\ kept' = [kept EXCEPT !.file = IF kept.stored = {} THEN file ELSE kept.stored]
           /\ UNCHANGED faults
        \/ /\ kept' = [kept EXCEPT !.file = file]
           /\ Fails
    /\ UNCHANGED <<chain, story, told, brake>>

\* readHoldVault reads the vault first ...
ReadVault ==
    /\ scan.at = "vault"
    /\ scan' = [scan EXCEPT !.at = "ledger", !.rows = chain.rows, !.delay = chain.delay]
    /\ UNCHANGED <<chain, story, kept, told, brake, faults>>

\* Only the newest recovery counts.
RecoveredSince(log, created) ==
    LET all == {i \in DOMAIN log : log[i].kind = "RECOVERED"} IN
    all # {} /\ log[Max(all)].ts >= created

\* specificEnd, over the entries that name the withdrawal
EndKinds(log, id) ==
    {log[i].kind : i \in {i \in DOMAIN log :
        log[i].id = id /\ log[i].kind \in {"PAID", "STOPPED", "SKIPPED"}}}

\* alertsForVault: the rows of the vault as it was read, the record as it is now.
AlertsForVault(rows, delay, log, now) ==
    LET Event(id, name) == [id |-> id, name |-> name, n |-> 0]
        Created(id) == CreatedAt(log, rows[id], id, delay)
        Over == {id \in HeldIds : EndKinds(log, id) # {}}
        Gone == {id \in Waiting(rows) \ Over : RecoveredSince(log, Created(id))}
    IN {Event(id, "RECOVERED") : id \in Gone}
        \union (UNION {{Event(id, kind) : kind \in EndKinds(log, id)} : id \in Over})
        \union (UNION {Cadence(id, rows[id], Created(id), now) :
                          id \in Waiting(rows) \ (Over \union Gone)})

\* journal.has
Fresh(events) == events \ kept.file

\* ... and then its ledger, and raises what is due: raiseHoldAlerts writes each alert down
\* before it is given.
RaiseHoldAlerts ==
    LET events == Fresh(AlertsForVault(scan.rows, scan.delay, chain.log, chain.clock)) IN
    /\ story.reader = "watcher"
    /\ scan.at = "ledger"
    /\ kept' = [kept EXCEPT !.file = @ \union events]
    /\ Tell(events)
    /\ scan' = IF events = {} THEN Idle ELSE [Idle EXCEPT !.at = "store"]
    /\ UNCHANGED <<chain, story, brake, faults>>

\* persistLocalJournal, only after something was raised
StoreJournal ==
    /\ scan.at = "store"
    /\ scan' = Idle
    /\ \/ kept' = [kept EXCEPT !.stored = kept.file] /\ UNCHANGED faults
       \/ Fails /\ UNCHANGED kept
    /\ UNCHANGED <<chain, story, told, brake>>

\* A read fails, or the process dies. A watcher that dies between the two may have written
\* down an alert it did not give.
ScanFails ==
    /\ scan.at # "idle"
    /\ Fails
    /\ scan' = Idle
    /\ \/ kept' = kept
       \/ /\ story.reader = "watcher" /\ scan.at = "ledger"
          /\ \E e \in Fresh(AlertsForVault(scan.rows, scan.delay, chain.log, chain.clock)) :
                kept' = [kept EXCEPT !.file = @ \union {e}]
    /\ UNCHANGED <<chain, story, told, brake>>

\* An error of the owner's half of a phone's scan is kept until the guardian's half has run.
OwnerHalfFails ==
    /\ scan.at \in {"own", "own keys"}
    /\ Fails
    /\ scan' = [Idle EXCEPT !.at = "find"]
    /\ UNCHANGED <<chain, story, kept, told, brake>>

-----------------------------------------------------------------------------
(* The phones: raiseHoldAlertsOnScan looks for vaults the wallet owns, then *)
(* for vaults it guards. The owner's phone owns the vault modelled here and *)
(* guards another, of which one reminder is known; the guardian's phone     *)
(* guards the vault modelled here.                                          *)

Phone == story.reader \in {"owner", "guardian"}

Key(guard, id, name, at) == [guard |-> guard, id |-> id, name |-> name, at |-> at]

\* The reminder of a withdrawal held in the other vault.
OtherReminder == Key(TRUE, 0, "created", LastTick + 1)

OtherVaultMoves ==
    /\ "OTHER" \in story.kinds
    /\ story.reader = "owner"
    /\ chain' = [chain EXCEPT !.other = ~@]
    /\ UNCHANGED <<story, scan, kept, told, brake, faults>>

\* The planned keys of the rows read, whose record is read later.
PlannedKeys(guard, rows, delay) ==
    UNION {{Key(guard, id, m.name, m.at) :
              m \in HoldAlertPlan(id, rows[id], CreatedAt(chain.log, rows[id], id, delay))} :
           id \in Waiting(rows)}

\* The clock and the vault are read first; a scan of the guardian's phone has no vault of
\* its own to look at.
BeginPhoneScan ==
    /\ Phone
    /\ scan.at = "idle"
    /\ scan' = IF story.reader = "owner"
               THEN [Idle EXCEPT !.at = "own", !.rows = chain.rows, !.delay = chain.delay]
               ELSE [Idle EXCEPT !.at = "find"]
    /\ UNCHANGED <<chain, story, kept, told, brake, faults>>

\* futureHoldAlerts
Future(keys) == {k \in keys : k.at > chain.clock}

\* dueHoldAlerts
DueUnseen(keys) == {k \in keys \ Future(keys) : k \notin kept.seen}

\* Mutant: every reminder on the list that is not of this scan is taken back.
MutStale(guard, live) == kept.listed \ live

\* The reminders of this half of the scan that are no longer planned.
Stale(guard, live) == {k \in kept.listed \ live : k.guard = guard}

\* raiseHoldAlertsForOwner, up to the point where it writes down what it did
RaiseForOwner ==
    LET live == PlannedKeys(FALSE, scan.rows, scan.delay)
        due == DueUnseen(live)
    IN
    /\ scan.at = "own"
    /\ Tell(due)
    /\ kept' = [kept EXCEPT !.os = (@ \union Future(live)) \ Stale(FALSE, live)]
    /\ scan' = [Idle EXCEPT !.at = "own keys", !.rows = scan.rows,
                    !.keys = [seen |-> kept.seen \union due,
                              listed |-> (kept.listed \union Future(live)) \ Stale(FALSE, live)]]
    /\ UNCHANGED <<chain, story, brake, faults>>

WriteOwnerKeys ==
    /\ scan.at = "own keys"
    /\ kept' = [kept EXCEPT !.seen = scan.keys.seen, !.listed = scan.keys.listed,
                            !.last = scan.rows]
    /\ scan' = [Idle EXCEPT !.at = "find"]
    /\ UNCHANGED <<chain, story, told, brake, faults>>

\* discoverGuardedVaults: the search finds the vault and the phone remembers it; when the
\* search fails the vault is read if it is remembered. The rows are read again one by one,
\* the record after them.
DiscoverGuardedVaults ==
    /\ scan.at = "find"
    /\ \E found \in BOOLEAN :
        /\ found \/ Faulty
        /\ faults' = IF found THEN faults ELSE faults + 1
        /\ kept' = [kept EXCEPT !.remembered = @ \/ found]
        /\ scan' = [Idle EXCEPT !.at = "guard",
                        !.rows = IF kept.remembered \/ found THEN chain.rows ELSE NoRows,
                        !.delay = chain.delay]
    /\ UNCHANGED <<chain, story, told, brake>>

GuardLive ==
    IF story.reader = "owner"
    THEN IF chain.other THEN {OtherReminder} ELSE {}
    ELSE PlannedKeys(TRUE, scan.rows, scan.delay)

\* guardAlertsFor: one alert for each row and one for the waiting change.
GuardAlertsFor ==
    IF story.reader = "owner" THEN {}
    ELSE {Key(TRUE, id, "held", 0) : id \in Waiting(scan.rows)}
            \union {k \in {Key(TRUE, 0, "change", chain.change.at)} : chain.change.on}

\* seenList.slice(-SEEN_CAP)
LastSeen(list) == SubSeq(list, 1 + (IF Len(list) > SEEN_CAP THEN Len(list) - SEEN_CAP ELSE 0),
                         Len(list))

\* raiseGuardAlerts, up to the point where it writes down what it did
RaiseForGuardian ==
    LET new == {k \in GuardAlertsFor : k \notin ToSet(kept.guardSeen)} IN
    /\ scan.at = "guard"
    /\ Tell(new)
    /\ kept' = [kept EXCEPT !.os = (@ \union Future(GuardLive)) \ Stale(TRUE, GuardLive)]
    /\ scan' = [Idle EXCEPT !.at = "guard keys", !.rows = scan.rows,
                    !.keys = [new |-> new,
                              listed |-> (kept.listed \union Future(GuardLive))
                                            \ Stale(TRUE, GuardLive)]]
    /\ UNCHANGED <<chain, story, brake, faults>>

WriteGuardKeys ==
    /\ scan.at = "guard keys"
    /\ \E order \in SetToSeqs(scan.keys.new) :
        kept' = [kept EXCEPT !.listed = scan.keys.listed,
                             !.guardSeen = IF order = <<>> THEN @ ELSE LastSeen(@ \o order),
                             !.last = IF story.reader = "owner" THEN @ ELSE scan.rows]
    /\ scan' = Idle
    /\ UNCHANGED <<chain, story, told, brake, faults>>

-----------------------------------------------------------------------------
(* The guardian's screen                                                   *)

NoBrake == [at |-> "off", kind |-> "none", id |-> 0]

\* HoldGuard opened from an alert about a withdrawal, with the vault read.
OpenGuard ==
    /\ "BRAKE" \in story.kinds
    /\ story.reader = "guardian"
    /\ brake.at = "off"
    /\ \E key \in told.once : brake' = [at |-> "open", kind |-> "none", id |-> key.id,
                                        rows |-> chain.rows, frozen |-> chain.frozen]
    /\ UNCHANGED <<chain, story, scan, kept, told, faults>>

\* GuardScreen: what the screen offers of the vault as it was read. The withdrawal to stop
\* is the one of the alert and no other.
Offers(kind) ==
    /\ kind = "stop" => brake.id \in Waiting(brake.rows)
    /\ kind = "freeze" => ~brake.frozen

\* guardBrake, which checks the same again before the wallet opens
GuardBrake(kind) ==
    /\ brake.at = "open"
    /\ Offers(kind)
    /\ brake' = [brake EXCEPT !.at = "sent", !.kind = kind]
    /\ UNCHANGED <<chain, story, scan, kept, told, faults>>

\* What the program makes of the transaction: it fails when the row is gone or the vault
\* already frozen.
BrakeLands ==
    /\ brake.at \in {"sent", "late"}
    /\ chain.total < story.entries
    /\ CASE brake.kind = "stop" -> /\ brake.id \in Waiting(chain.rows)
                                   /\ chain' = Settles(chain, brake.id, "STOPPED")
         [] brake.kind = "freeze" -> /\ ~chain.frozen
                                     /\ chain' = Logs([chain EXCEPT !.frozen = TRUE], "FROZEN", 0)
         [] brake.kind = "recover" -> chain' = Recovers(chain)
    /\ brake' = IF brake.at = "sent" THEN [brake EXCEPT !.at = "landed"] ELSE NoBrake
    /\ UNCHANGED <<story, scan, kept, told, faults>>

BrakeBounces ==
    /\ brake.at \in {"sent", "late"}
    /\ brake.kind = "stop" => brake.id \notin Waiting(chain.rows)
    /\ brake.kind = "freeze" => chain.frozen
    /\ brake' = NoBrake
    /\ UNCHANGED <<chain, story, scan, kept, told, faults>>

\* confirmSignatures gives up after its 20 seconds; the transaction may still land.
BrakeTimesOut ==
    /\ brake.at = "sent"
    /\ brake' = [brake EXCEPT !.at = "late"]
    /\ UNCHANGED <<chain, story, scan, kept, told, faults>>

\* The wallet's signature is confirmed before the screen says anything.
Confirmed == brake.at = "landed"

\* guardResultLine
SaysResult ==
    /\ Confirmed
    /\ brake' = [brake EXCEPT !.at = "said"]
    /\ UNCHANGED <<chain, story, scan, kept, told, faults>>

CloseGuard ==
    /\ brake.at \in {"open", "said"}
    /\ brake' = NoBrake
    /\ UNCHANGED <<chain, story, scan, kept, told, faults>>

-----------------------------------------------------------------------------

AlertsInit ==
    /\ \E delay \in Waits :
        chain = [clock |-> 0, delay |-> delay, rows |-> NoRows, change |-> NoLoosening,
                 log |-> <<>>, total |-> 0, frozen |-> FALSE, other |-> FALSE,
                 recovered |-> {}]
    /\ story \in Stories
    /\ scan = Idle
    /\ kept = [file |-> {}, stored |-> {}, seen |-> {}, listed |-> {}, os |-> {},
               guardSeen |-> <<>>, remembered |-> FALSE, last |-> NoRows]
    /\ told = [once |-> {}, again |-> {}]
    /\ brake = NoBrake
    /\ faults = 0

Scans ==
    \/ BeginScan \/ ReadVault \/ RaiseHoldAlerts \/ StoreJournal
    \/ BeginPhoneScan \/ RaiseForOwner \/ WriteOwnerKeys \/ DiscoverGuardedVaults
    \/ RaiseForGuardian \/ WriteGuardKeys

Brakes ==
    \/ OpenGuard \/ BrakeLands \/ BrakeBounces \/ BrakeTimesOut \/ SaysResult \/ CloseGuard
    \/ \E kind \in {"stop", "freeze", "recover"} : GuardBrake(kind)

AlertsNext ==
    ChainMoves \/ OtherVaultMoves \/ Scans \/ ScanFails \/ OwnerHalfFails \/ Brakes

\* The scheduler starts the watcher, and the phone its background task, again and again, and
\* a scan that has begun goes on (cloud scheduler; the 15 minute task of the app).
AlertsSpec == AlertsInit /\ [][AlertsNext]_alertVars /\ WF_alertVars(Scans)

-----------------------------------------------------------------------------
(* Properties                                                              *)

\* A withdrawal held in the very second of a recovery, which the watcher cannot tell from
\* one the recovery cleared.
HeldAsRecovered(id) == chain.rows[id].held \in chain.recovered

\* What the watcher says became of a withdrawal is what became of it, although the vault and
\* the record were read at two moments, an earlier recovery is still on record, and payments
\* made at once are recorded beside it (alertsForVault).
EndsAreTrue ==
    story.reader = "watcher" =>
        \A k \in told.once :
            k.name \in {"PAID", "STOPPED", "SKIPPED", "RECOVERED", "HELD"} =>
                \/ k.name = chain.rows[k.id].st
                \/ k.name = "RECOVERED" /\ HeldAsRecovered(k.id)

\* No alert is given twice, by the watcher or by a scan of a phone, unless a store, a search
\* or a scan failed on the way (the journal, the seen lists and their cap).
ToldOnce == faults = 0 => told.again = {}

\* Between scans, unless one was cut short, the reminders set on a phone for the time to come
\* are those of the rows the last scan saw waiting, and every one of them is on the list a
\* later scan takes back from (raiseHoldAlertsForOwner and raiseGuardAlerts share the list).
RemindersFollowTheVault ==
    Phone /\ scan.at = "idle" /\ faults = 0 =>
        /\ kept.os \subseteq kept.listed
        /\ {k.id : k \in {k \in Future(kept.os) : k # OtherReminder}} \subseteq Waiting(kept.last)
        /\ \A id \in Waiting(kept.last) :
            kept.last[id].unlock > chain.clock =>
                \E k \in kept.os : k.id = id /\ k.name = "end" /\ k.at = kept.last[id].unlock

\* What the guardian is told a brake did, it did: a withdrawal said to be stopped is never
\* paid, and nothing waits that waited when everything was moved (brake, guardResultLine).
BrakesAreTrue ==
    brake.at = "said" =>
        /\ brake.kind = "stop" => chain.rows[brake.id].st = "STOPPED"
        /\ brake.kind = "recover" => Waiting(brake.rows) \cap Waiting(chain.rows) = {}
        /\ brake.kind = "freeze" => chain.frozen

\* What the watcher and the phones say of a withdrawal and of a brake is true and said once,
\* and the reminders set follow the vault (hold.ts, holdAlerts.ts, holdGuard.ts).
AlertsAreTrue == EndsAreTrue /\ BrakesAreTrue /\ ToldOnce /\ RemindersFollowTheVault

\* A withdrawal that goes on waiting is announced, by the watcher and on both phones.
HeldIsAnnounced ==
    \A id \in HeldIds :
        []<>(\/ chain.rows[id].st # "pending"
             \/ \E k \in told.once : k.id = id /\ k.name # "RECOVERED"
             \/ HeldAsRecovered(id)
             \/ faults > 0)

=============================================================================
