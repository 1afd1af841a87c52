# Urząd miasta: TLA+ models and proofs

The program simulates one day of a city office with System V IPC: processes for
the director, three ticket machines, six kinds of clerk and up to 10000 visitors
("petenci") share one memory segment, one set of semaphores and one message
queue. This directory models the processes and everything they share, checks the
models with TLC and proves what matters most with TLAPS.

- [Inventory](#inventory)
- [Modules](#modules)
- [How state and actions correspond to the code](#how-state-and-actions-correspond-to-the-code)
- [Properties](#properties)
- [Runs](#runs)
- [Fairness](#fairness)
- [Proofs](#proofs)
- [Where the code and its documents differ](#where-the-code-and-its-documents-differ)
- [Not modelled](#not-modelled)
- [Plan](#plan)

To repeat: `tlc -workers 2 -config <run>.cfg MCUrzad.tla` for a run (`MCMain.tla`
for `shutdown` and `shutdown_hangs`), and `tlapm` on
`UrzadProofs.tla`, `UrzadTypes.tla`, `UrzadSemaphores.tla`, `UrzadTickets.tla`,
`UrzadPapers.tla`, `UrzadReport.tla`, `UrzadService.tla`, `MainProofs.tla` for the proofs.

## Inventory

| Part | State it keeps | Operations | Correct when |
|---|---|---|---|
| shared memory `stan_urzedu_t` (`helpers/consts.h`) | `is_opened`, `is_locked`, `petent_pids`, `taken_ticket_count`, hours, pids | read and written by every program, mostly under `semlock` | critical sections do not overlap |
| semaphores `sems_t` (`helpers/consts.h`, `helpers/sync.c`) | `semlock`, `configured`, `opened` (turnstile of the day), `building` (places), `tickets` (line to the machines), one queue and one limit per faculty, two limits for SA | P, V, P of two at once, set, read, count of waiters | places, queue slots and limits are never lost nor doubled |
| global message queue | requests (type 1), refusals (type 2), a normal and a priority type per clerk, replies (type = pid) | `msgsnd` (sleeps when full), `msgrcv`, polled or sleeping | each petent has at most one ticket on its way |
| petent (`petent.c`) | its ticket, `sig2`, `vip`, `people_count` | register, wait for the hours, turnstile, building, machine, clerks, leave; signal 2 | returns what it took on every one of its exits |
| ticket machine (`rejestracja.c`) | `machine_is_opened`, the ticket in hand | open/close by length of line, poll, take from the limit, answer, report, lock the building | tickets within the limits, one machine always on, refusals reported |
| clerk (`urzednik.c`) | ticket in hand, priority flag, `sig1` | poll both queues, redirect (SA), send to pay, take payment (cashier), settle, report; empty the queues at the end | nobody lost on the way, no settling before the payment, refusals reported |
| director (`dyrektor.c`) | hours, collected refusals | configure, open, signal 1, signal 2, close, report, last signals; a thread that collects refusals | nobody enters outside the day; the report holds the refusals |
| main (`main.c`) | ids of the IPC objects, children | create all, start all, wait for the hours and the children, remove all; SIGINT at any time | it comes to its end, nothing is left behind, nothing is removed too early |
| logger (`helpers/logger.c`) | its own queue, two files, a thread, `stop` | create, log without waiting, destroy | ends when asked to, its files last as long as its thread |
| settings (`wygeneruj_stan_urzedu`, `alloc_res`, arrival in `petent.c`) | `time_open`, `time_close`, limits | computed once | the hours are the next ones the local clock shows, arrivals fall between them |
| tests, CMake, scripts | - | `generate_petents.sh` starts petents at any time | - |

Interaction. main forks the director, the machines and the clerks and waits for
them; petents come from a script, in a process group of their own, so that
`kill(0, SIGUSR2)` does not reach them and only registered pids are signalled. A
petent asks a machine by a message of type 1, gets the answer under its own pid,
writes to the queue named in its ticket and gets the ticket back from the clerk,
changed; machines and clerks write refusals of type 2, which the director's
thread polls. Everyone passes the semaphore `opened`; only the director opens and
shuts `building`, but machines, clerks (all limits used up) and leaving petents
change it too.

What is hard here: two-step use of a semaphore that somebody else resets; a flag
set by a signal and tested before a call that sleeps; `msgsnd` that sleeps with
`semlock` held; error paths that each have to undo another part; clerks that
empty their queue once while others still write to it; an uninitialised index and
an uninitialised `vip`; a wait for `semlock` that a signal interrupts and nobody
checks; a children's copy of main that cleans up for everyone; a thread joined
while it sleeps. `PROJECT.json` lists all of them under "hazards" with
their lines.

## Modules

| Module | What it is |
|---|---|
| `StanUrzedu` | constants, shared variables, tickets, the kernel queue, the critical section, the lock on exhausted limits |
| `Petent` | `petent.c`, extends `StanUrzedu` |
| `Rejestracja` | `rejestracja.c`, extends `StanUrzedu` |
| `Urzednik` | `urzednik.c`, extends `StanUrzedu` |
| `Dyrektor` | `dyrektor.c`, extends `Petent` and `Urzednik`, whose processes it signals |
| `Lobby` | abstract specification: what the semaphore `building` promises, without the programs |
| `Service` | abstract specification: what the office promises a petent about its matter, as lines in a book, without the papers that carry them |
| `Urzad` | the composition: `Init`, `Next`, fairness, every property of the office, the mappings to `Lobby` and to `Service` |
| `MCUrzad` | constants of the runs of `Urzad`, and a start with the office already open |
| `Logger` | `logger.c`: the queue, the files and the thread of the logger |
| `Ustawienia` | the hours, the arrival of a petent and the daily limits, as functions |
| `Main` | `main.c` with its failures, SIGINT, and the children as far as main sees them; extends `Logger` and `Ustawienia` |
| `MCMain` | constants of the runs of `Main` |
| `UrzadProofs` | which action leaves which variables alone; proofs of capacity, the lock and the doors |
| `UrzadTypes` | proofs of the type invariant, of the table of pids, of the first machine, of what signal 1 asks of a clerk, and of the routes: where a ticket may be sent, and that payments come first; extends `UrzadProofs` |
| `UrzadSemaphores` | proof of the refinement of `Lobby`, of the places kept and of the tokens of the queues; extends `UrzadTypes` |
| `UrzadTickets` | proofs of the one ticket per petent and of the refusals; extends `UrzadTypes` |
| `UrzadPapers` | what a ticket on its way remembers, and proofs of the limits, of the one payment and of the way onwards; extends `UrzadTickets` |
| `UrzadReport` | what each step does to the papers that go round; proofs that the report is true and names nobody twice; extends `UrzadPapers` and `UrzadSemaphores` |
| `UrzadService` | proof of the refinement of `Service`; extends `UrzadReport` |
| `MainProofs` | proofs about main, the hours and the limits |

`Urzad` and `Main` are two views of one program. In `Urzad` the objects exist from
the start, the children live as their programs say, and main is the loop over `wait`
and the removal of everything. In `Main` a child is a label (not there, forked, at
work, cleaning up, ended, awaited), and everything main does is there.

## How state and actions correspond to the code

Variables carry the source's names where there is one variable for one
(`is_opened`, `building`, `petent_pids`, ...). `pc`, `mpc`, `wpc`, `dpc`, `rpc`
hold the system call a petent, a machine, a clerk, the director and its thread
make next, so that an action is the code from one blocking or shared operation to
the next. Locals that live across such a call are `tck` (petent), `mtck` and
`mstatus` (machine), `wtck` as received, `wout` as answered and `wvip` (clerk).

- Semaphores are numbers. `EnterBuilding` takes one or two places in one step, as
  `semop` with `-count` does. `configured` gets 1000 at once and every user puts
  its unit back, so it is a flag.
- `semlock` is a counter, 1 at first. A section that does one thing is one action
  with the guard `Critical`. A machine keeps it across other calls (it sends the answer
  and the report with `semlock` held), so `MachineServe` takes it and `MachineReply`
  or `MachineReport` gives it back; a petent keeps it from its look at the flags to the
  places it gives back (`LeaveBuilding`, `GivePlaces`).
- A signal may interrupt the wait for `semlock`, and no caller but the director's and
  the petent's first ones looks at the result. `unlocked` holds the processes that go
  on into their section without the lock: they raise `semlock` at the end all the same
  (`LeaveSection`), so that it may exceed 1. `ignoredEintr` says that an unchecked call
  has failed this way (the wait for `semlock`, a clerk's `msgsnd`, a clerk's turnstile);
  properties that no longer hold then are stated for the time before it.
- Messages are a sequence for each type; `Send` waits while the number of
  messages is `MsgCap`, whichever type they have. A message refused as such
  (`queueid` -1) takes the error path.
- Of `ticketid` the sign is kept: -1 refused, 0 none yet, 1 for any number. The
  director's report is the set of refusals, without counts.
- Random draws are choices; `sleep` ends at any time; time does not pass
  otherwise. `vip` is any value of `VipValues`, since the code assigns it for one
  petent in 200 and reads it uninitialised for the others.
- `Signal2` sets the flag; if the petent sleeps in a call, the call may fail with
  EINTR and the petent goes on in that call's error path (`OnInterrupt`). A
  petent that is not asleep has only its flag. A signal to a petent that sleeps
  may also be overtaken by what it waits for, so that the call still succeeds.
  `Signal1` may, in the same way, cost a clerk asleep in `msgsnd` the message, or
  bring it past the turnstile without a token (`AfterFailure`).
- `SendSignal1` chooses among one clerk, no process, and all clerks: the index is
  uninitialised, and pid 0 is the process group.
- `GETNCNT` is a range (`TicketQueueLengths`): of those that stand at the line,
  any number may have made the call already.
- Merged steps: the read of `is_opened` after the turnstile, of machines and
  clerks, is repeated at the head of the loop; the length of the line and
  `is_opened` are read in one step, which loses nothing since `is_opened` only
  falls during the loop; `is_locked` and the places of `building` (`rejestracja.c:223-224`,
  `urzednik.c:231-232`) are set in one step (`LockIfExhausted`): a petent that enters between
  the two needs no `semlock` and might as well have entered before them.
- `queuedAtClose` holds whoever sleeps in line to a clerk at closing, those being served as
  well: `QueuedAtCloseReported` speaks of those that sleep in a line still when all clerks
  have gone.
- `issued` and `queuedAtClose` are history: no action reads them.
- `Desks` are the faculties other than SA that a run has; the limits of those it
  leaves out count as used up.
- `Closing` and `Events` bound runs: with FALSE the closing time does not come, or
  the director sends no signal.

For `Main`:

- `pc` is the call main makes next; `kernel` the System V objects that exist; `ids`
  what the fields of `res_t` hold: garbage after `malloc` ("unset"), -1, an id, or the
  id 0 that Linux gives to the first segment and that `exit_signal_handler` takes for
  "none". `res` says whether the global `res` is assigned yet.
- Every call that may fail has a second outcome under `Failures`; `shutdown` is the
  jump to `freeSem`. An uninitialised id fails or, at worst, names the logger's queue.
- `shmat` of a segment that is gone gives -1, which is used without a check: `Crash`,
  after which the kernel keeps the objects. So is SIGINT before `res` is assigned.
- A group of children is forked in one step, in which any of them may fail; the labels
  of the others then stay. A child whose `execl` fails runs `free_res` and
  `logger_destroy` as main does (`KidFrees`, `KidDestroys`).
- `Sigint` comes to main or to the whole group, once (the handler does not return and
  the signal is blocked in it). A child that is still a copy of main runs the handler too.
- The clock, the hours in `consts.h`, the offset of local time and `rand()` are arguments:
  what `wygeneruj_stan_urzedu` computes is a function of them, stated of the moment at
  which the director is up and has not set the hours.
- Of a log message its place in the queue is kept. All levels are written, since main
  asks for the lowest.

The mapping to `Service`. At any time at most one copy of a petent's ticket is on its
way: in the queue, with a machine or with a clerk. The book of `Service` holds, for each
petent, what that copy says with all that its holder has written on it so far (`Paper`,
`MachinePaper`), or what the petent's own ticket says when there is no copy; `heard` is
what the petent's own ticket says. A machine that takes a ticket off a limit has thereby
written the line `Answer`, though the message is still to be sent; a clerk that turns a
petent away writes `TurnAway` when it sends. Where two actions of the program write and
deliver a line, `Service` has the line and `Hear`; what only moves a paper is a stutter.

Definitions under the comment "Slip" are not the program: each is a small mistake
in the place of the definition below it, there to see that the properties notice.

## Properties

| Property | What it says |
|---|---|
| `TypeOK` | types |
| `BuildingCapacity` | people inside + places offered never exceed `building_max` |
| `NoPlaceLost` | during the open day they are equal: no exit loses a place |
| `NoPlacesOnceShut` | shut or locked, the building offers no place again |
| `EntersOnlyWhileOpen` | as long as no wait for `semlock` has been interrupted (and no other unchecked call has failed), nobody enters out of hours or once the building is locked; `late_entry` shows what happens after one |
| `LobbyImplemented` | the four programs together are a lobby: open, enter, leave, end, shut (`Lobby`) |
| `ListedUntilTold` | a petent on its way that has got no signal 2 is in `petent_pids`, though the director clears it without the lock |
| `QueuesConserved` | `tickets` and each queue semaphore + their holders stay constant on all paths |
| `LimitsHonoured` | each limit falls by exactly the petents that got a ticket for it |
| `LockHeldByOne` | `semlock` is free or exactly one machine or petent holds it |
| `OneTicketPerPetent` | who waits has one ticket on its way, who does not has none; after a signal at most one stays behind |
| `RefusalsReach` | a petent that was refused is known, or about to be, to the director |
| `ReportedOnce` | nobody is in the report, on the way to it or about to be sent there twice |
| `ReportTrue` | who is on the way to the report was refused: the petent knows, finds it in the queue, or a clerk is about to tell it |
| `ServiceImplemented` | the office keeps one book (`Service`): a line is written once and read before the next; a place of a limit goes to one matter; refused is only who finds no place, or at the end of the day; a desk settles at once or charges a fee, which is paid before the petent comes back; only a signal in an unchecked call makes lines go lost |
| `PaidBeforeSettled` | a ticket with a payment due goes to the cashier and nowhere else |
| `PaidOnce` | a payment made is never asked for again |
| `NeverSentBack` | a petent sent to a desk stays with it until it is done |
| `FirstMachineStays` | machine 0, once open, works as long as the office is open |
| `DayEnds` | the day ends with everyone home, or with a child stranded at the turnstile |
| `SignalledTakesNoMore` | a clerk that got signal 1, once back at the head of its loop, serves nobody any more, though the office is still open |
| `PetentsServed` | in an open office whoever is inside comes out |
| `MainTypeOK` | types of `Main`; the log queue never exceeds its bound |
| `ExitLeavesNothing` | where main ends, no System V object and no open file is left |
| `FilesOutliveThread` | the log files are open while the thread may write |
| `RemovedAfterKids` | the objects are removed when all children are awaited, except after SIGINT or a child that could not be started |
| `MainComesToJoin` | main ends or comes to the end of the logger; it waits for ever only for a director that has ended without setting the hours |
| `StopNoticed` | with a message to read, the logger's thread notices `stop` |
| `HoursAsSet` | an hour set in `consts.h` becomes the next moment the local clock shows it, or, where the local date is behind that of UTC, that hour of the local tomorrow |
| `ArrivesInHours` | started outside the hours (or where the local date is behind), the office is open as long as they say and petents arrive within them |
| `NobodyEntersClosed`, `QueuedAtCloseReported`, `EvacuatedLeave`, `PayerGoesFirst`, `MainEnds` | what README and comments say and the code does not do, see below |

## Runs

Module `MCUrzad`, and `MCMain` for the last two. Runs named "open" start in `OfficeOpen`, a state the day
reaches: everyone registered and in front of the building, machines and clerks at
the head of their loops. The runs `day` and `day_ends` start in `Init`.

| Run | Start | Size | What it shows |
|---|---|---|---|
| `registration` | open | 3 petents of 1 or 2 people, machines 0 and 1, 3 places, matters KM and SA with one ticket each | `BuildingCapacity`, `NoPlaceLost`, `LimitsHonoured`, `LockHeldByOne`, `FirstMachineStays`; the places do not suffice for two pairs, limits run out and the building is locked, machine 1 opens and closes |
| `service` | open, one VIP, in the first slot | 2 petents, clerks SA, KM, cashier | `OneTicketPerPetent`, `RefusalsReach`, `LimitsHonoured`, `PaidBeforeSettled`, `NeverSentBack`, `PaidOnce`, `ServiceImplemented`; the SA clerk and the machine race for the one ticket of KM, the loser is refused, the winner pays and comes back |
| `evacuation` | open | 2 petents, clerk KM, closing time and both signals, `MsgCap` 2 | `BuildingCapacity`, `QueuesConserved`, `OneTicketPerPetent`, `RefusalsReach`, `ReportedOnce`, `ReportTrue`, `NoPlacesOnceShut` through every error path, with `msgsnd` and the wait for `semlock` interrupted, and the clerk's last loop |
| `day` | Init | 2 petents with `vip` 0, 1 or 7, 1 slot in `petent_pids`, no clerk, closing and signals | `EntersOnlyWhileOpen`, `LobbyImplemented`, `ListedUntilTold`, `QueuesConserved` |
| `day_ends` | Init | 1 petent, clerk KM, closing and signals, fair | `TypeOK`, `DayEnds`, `SignalledTakesNoMore`, `ServiceImplemented`: between signal 1 and the end of `is_opened` the flag alone keeps the clerk from its work; who is turned away at the end, and lines lost to sends that signal 1 interrupts |
| `served` | open | 2 petents, clerks KM, cashier, fair | `PetentsServed` |
| `late_entry` | open | 3 petents, 2 places, closing and signals | violates `NobodyEntersClosed` |
| `unreported` | open | 2 petents, KM, cashier, closing | violates `QueuedAtCloseReported` |
| `evacuated_stuck` | open | 1 petent, KM, signals | violates `EvacuatedLeave` |
| `payer_waits` | open | 2 petents, KM with two tickets, cashier | violates `PayerGoesFirst` |
| `shutdown` | Init | director, a machine, a clerk; log queue of 2; every failure, SIGINT; 9 moments, 5 hours of the day, 6 offsets, 6 draws; fair | the eight properties of `Main` in the table above |
| `shutdown_hangs` | Init | as before, no failure and no SIGINT; fair | violates `MainEnds` |

Why these bounds are enough to be of use. The semaphores that are contended have
one or two units, so two petents contend for the queue of a desk and for the one
machine, three for two machines. Each petent uses a limit once per faculty, so one
ticket in a limit and two petents give success, refusal and the lock. `MsgCap` 20
is never reached by two or three petents; `MsgCap` 2 is reached by two petents and
a refusal. In `service` nobody is signalled, so which slot of `petent_pids` the VIP has
tells nothing: it is the first. Two petents and the two clerks of a route give every order in which a route is walked;
what more petents add is proved for the properties under [Proofs](#proofs).
`Permutations(Petents)` is a symmetry: petents differ in nothing but their random
attributes; the fair runs do without it.

Deadlock is checked wherever the system is not meant to stop: `Rest` lets it stop
when everyone has gone, or when a machine or a clerk stands at the turnstile for
ever, and nowhere else. In `evacuation` it is not: with the queue full, and petents
asleep for `semlock` that a machine holds in `msgsnd`, the system really may stop.
main may stop (`Rest` of `Main`) where it is over or sleeps in the join.

For `Main` three children are one of each kind of fork, two of them are enough for one
to clean up while another works, and a log queue of two is full at once. The moments
are the ends of a UTC day in January 2026, the night before, and some within; the
offsets reach from UTC-12 to UTC+14, so that the local date is behind that of UTC,
the same, or ahead of it; the hours are both ends of a day and some within. What holds of
them is proved for all.

## Fairness

`Fairness` is weak fairness of each process: Linux schedules every one of them,
their sleeps are finite, and a poll is a step. It says nothing about who gets a
contended semaphore (System V grants no order) nor about random draws. The
director's weak fairness makes a day with `Closing` end, since its loop
ends at `time_close`. `PetentsServed` needs no more: in its bounded run a petent
in front of a semaphore is overtaken by the one other petent at most.

In `Main` main, the logger's thread and every child are weakly fair: each of them is
scheduled, `msgrcv` returns when there is a message, and a child works for a finite
time (`DayEnds` says when it does not). SIGINT is not fair: nobody has to send it, nor
does any call have to fail or to succeed.

## Proofs

All for every value of the constants, from the assumptions in `StanUrzedu` (finite
sets, pids that are not integers, natural limits, one desk with a limit above 0), in
`Logger` (a queue of at least one message), `Ustawienia` (times are natural
numbers, offsets lie between 12 hours behind UTC and 14 ahead, minutes within a day) and
`Main` (children of different
kinds are different).

| Theorem | States | Argument |
|---|---|---|
| `UrzadProofs!Capacity` | `Spec => []BuildingCapacity` | The count of `Places` is disturbed by the steps of one petent only, and by exactly its `people_count` (lemmas on adding and removing one petent's places). Strengthening needed: before opening nobody is inside and `building` is 0, hence the director's reset to `building_max` cannot make places out of nothing. |
| `UrzadProofs!LockOwner` | `Spec => []LockHeldByOne` | Inductive with the types of the program counters; one step changes the set of holders by one machine or one petent. As long as no unchecked call has failed, `unlocked` is empty: that is the strengthening. |
| `UrzadProofs!DoorsStayShut` | `Spec => []NoPlacesOnceShut` | Needs that `is_opened` is FALSE whenever the director is past `closeFlag`, that whoever is giving places back holds the lock, so that neither the flags nor `building` were touched since it looked, and that before opening the office is not locked: that is where the assumption on the limits comes in, and that no machine has got past the turnstile. |
| `UrzadProofs!Doors` | `Spec => EntersOnlyWhileOpen` | For a behaviour only as long as no wait for `semlock` has been interrupted and no other unchecked call has failed. From the former: `EnterBuilding` needs a place, and the invariant says when there is none. |
| `UrzadTypes!Types` | `Spec => []TypeOK` | `TypeOK` is not inductive: the cashier puts `redirected_from` into `facultytype` and the machine adds an offset to the faculty. The strengthening says, for every message type, label and process, which tickets can be there (a request, an answer, a ticket for a desk, one on its way to the cashier, a refusal): in effect the routes of a ticket. |
| `UrzadTypes!SignalReaches` | `Spec => []ListedUntilTold` | A slot is taken only when it is free, and cleared only by the walk, which signals whoever is in it; a petent never changes its slot. |
| `UrzadTypes!FirstMachine` | `Spec => FirstMachineStays` | What machine 0 compares the line with is 0, and no line is shorter. |
| `UrzadTypes!SignalHeeded` | `Spec => SignalledTakesNoMore` | The labels of the clerk's last loop with the flag set (`Ending`) are closed under its own steps, those of the others, and a second signal, which may break a send there. |
| `UrzadSemaphores!Queues` | `Spec => []QueuesConserved` | Each step of a petent moves it in or out of the holders of at most one semaphore, which changes by the same number (`Balanced`). Needed besides: at the two labels that use a clerk's semaphore without asking whether there is one, there is one. |
| `UrzadTypes!Payment` | `Spec => []PaidBeforeSettled` | Routes: what `queueid`, `facultytype`, `redirected_from` and `payment` say about each other in the queue, at machines, clerks and petents. A payment is due on the way to the cashier only. |
| `UrzadTickets!OneTicket` | `Spec => []OneTicketPerPetent` | Flow: a petent has one spot among the parts of the kernel queue, the machines and the clerks; a step moves one ticket from one spot to another. Needed besides: who waits for an answer has one there, who does not has none unless it was signalled. That it is one is about all spots together, so that no step can be looked at alone. |
| `UrzadTickets!Refusals` | `Spec => []RefusalsReach` | Label by label: a refused ticket is in the hands of the machine or clerk about to report it, in the queue of the director, or in its table. |
| `UrzadPapers!Limits` | `Spec => []LimitsHonoured` | Papers: the copy on its way keeps the payment and the desk of the ticket its petent holds, and who was counted against a desk is on its way to that desk. Hence the petent that is counted was not counted before. It rests on there being one copy. |
| `UrzadPapers!Paid`, `UrzadPapers!Onwards` | `Spec => PaidOnce`, `Spec => NeverSentBack` | The same invariant, at the step in which the petent replaces its ticket by the answer. |
| `UrzadReport!Once` | `Spec => []ReportedOnce` | `ReportInv`: whoever is known to the director in one place is known in no other, and its matter is over: no request of it is in the queue, with a machine or with a clerk, and it will ask for nothing more. That is why machine, clerk and the clerk's last loop, which know nothing of each other, cannot report it a second time. It rests on the flow of the copies. |
| `UrzadReport!OnlyRefused` | `Spec => []ReportTrue` | The same invariant, which says besides that the refusal is in the petent's ticket, in the queue for it, or with the clerk that turns it away, as long as no send of a clerk was broken. |
| `UrzadService!ServiceRefinement` | `Spec => ServiceImplemented` | `MatterInv`: besides the former, that who has a request in hand sees the very ticket its petent holds (`Exact`), what a ticket at a given desk says about its payment (`Regular`), and that no clerk drains its queues and no process is through the doors too early (`DoorsInv`). Since there is one copy of a ticket (`OneTicket`), the line of the book is well defined (`LineIs`). Then each step is mapped, process by process: `MachineDecides` to `Answer`, the clerks' four dealings to `Redirect`, `Charge`, `Pay` and `Settle`, the end of a clerk's day to `TurnAway`, what a petent reads to `Hear` and its request to `Apply`, the closing time to `Close`, signal 1 to `Lose`. |
| `UrzadSemaphores!Refinement` | `Spec => LobbyImplemented` | Every step is mapped: `EnterBuilding` to `Enter`, a way out to `Leave`, the director to `Open`, `End` and `Shut`, a lock on exhausted limits to `Shut`, a signal that breaks a wait to `Loosen`, everything else to a stutter. It rests on the invariants of `Doors`. |
| `UrzadSemaphores!PlacesKept` | `Spec => []NoPlaceLost` | With the invariant that in an open office that is not locked the places offered and the people inside make up `building_max`. |
| `MainProofs!MainTypes` | `Spec => []MainTypeOK` | Inductive. |
| `MainProofs!NothingLeft` | `Spec => []ExitLeavesNothing` | Label by label: what can exist while main is there (`Through`), and which ids are set. |
| `MainProofs!FilesLast` | `Spec => []FilesOutliveThread` | main is past the join only when the thread is done, or the join was repeated. |
| `MainProofs!KidsFirst` | `Spec => RemovedAfterKids` | main comes to `free_res` by itself only from the loop over `wait`, or because a child was not made; this has to be remembered across labels (`KidsInv`). |
| `MainProofs!Hours` | `Spec => []HoursAsSet` | The loop that adds days ends in the one day that begins now; behind UTC it does not run, and the hour is on the date of UTC, the local tomorrow. Modular arithmetic. |
| `MainProofs!Arriving` | `Spec => []ArrivesInHours` | Both hours are moved by the same number of days when now is not between them; behind UTC neither is moved. |
| `MainProofs!LimitsForAll` | the limits for every number of petents | Integer division: natural, one above 0, those of SA add up to everyone. It is what the assumption on the limits asks for. |

The proofs are laid out with one lemma per group of actions; the first lemmas of
`UrzadProofs` say once which of the properties' variables each action leaves alone.
The invariants stand on each other: types, then routes, then the flow of the copies,
then what is written on them, then the report and the book. What each step does to the papers is said once
(`PetentMail` of `UrzadTickets`, `MachineMail`, `WorkerMail` and `DirectorMail` of
`UrzadReport`); the report and the book are proved from these.

Every invariant, every action property and both refinements that the passing runs check
are proved. Only model-checked: liveness (`DayEnds`, `PetentsServed`,
`MainComesToJoin`, `StopNoticed`), which is out of the prover's reach.

## Where the code and its documents differ

Shown by a run:

- `late_entry`: `README.md:19`, the office works from Tp to Tk. `unlock_sem_building`
  does not look at what `sem_lock` returns (`petent.c:98`). A petent that waits for
  `semlock` and gets signal 2 reads the flags without the lock and gives its places back
  after the director has shut the building: another petent enters.
- `unreported`: `README.md:28` promises the report the data of all who stand in line
  at closing time. A clerk that still serves then may send a petent to the cashier,
  who has emptied its queues and gone.
- `evacuated_stuck`: `README.md:32`, all petents leave at once on signal 2. One that
  is between its look at `sig2` and `msgrcv` falls asleep with the flag set; its pid
  is already cleared, and the machines close.
- `payer_waits`: `README.md:15`, a petent that has paid returns to the clerk and goes in
  without queueing, when the petent inside has left. That it waits for the petent inside is
  as promised; but it holds the clerk's semaphore while it pays, gives it back when it reads
  the cashier's answer, and then takes part at `petent.c:326` in the same contest as those in
  line: one of them may go in before it.
- `shutdown_hangs`: `RAPORT.md:352` shows a message to the logger between `stop` and the
  join. The code does not send it: the thread sleeps in `msgrcv`, main in `pthread_join`.

Met while modelling, in the models or beside them, with no document that says otherwise
unless it is named:

- The id of the segment is taken for a flag (`main.c:198`). With id 0 SIGINT signals no
  child, and the objects are removed while the children use them.
- SIGINT before `alloc_res` has returned dereferences a NULL `res`.
- A child whose `execl` fails removes the objects of everyone, and the logger's queue with
  them; main's thread then calls `msgrcv` in vain for ever.
- A director that fails before it has set the hours leaves main asleep on `configured`.
- After a crash the objects stay, and `IPC_EXCL` makes every start fail until they are
  removed by hand. The mutex of the logger is never initialised.
- With hours set in `consts.h`, a program started between them opens tomorrow and closes
  today. West of Greenwich, in the evening, base is a local day ahead and the loop only adds
  days (`dyrektor.c:311-315`): an hour that is still to come today becomes tomorrow's
  (`HoursAsSet`).
- `README.md:30`: on signal 1 the clerk serves the petent it has and ends before the office
  closes. The first half is `SignalledTakesNoMore`, but for a clerk that is past the head of
  its loop and takes one more petent. The second is not so: the director breaks out of its
  loop (`dyrektor.c:219`) and closes the office at once, so that signal 1 is the end of the
  day for all.
- The last sentence of `README.md:15` has those in line at closing time received that day,
  only not sent on or to the cashier. `README.md:28` says that they are not received but
  reported, which is what `urzednik.c:243-275` does and `ServiceImplemented` (`TurnAway`)
  says.
- The two limits of SA add up to the number of all petents; `README.md:11` gives SA about
  60 % of them.
- `petent.c:314`: a petent that finds the flag set keeps its places in the building.

## Not modelled

- SIGINT to the programs of `Urzad`. The director finds `keep_running` cleared, which is
  `TimeUp`; but SIGINT may also interrupt its unchecked waits for `semlock`
  (`dyrektor.c:183, 214, 238`), tells a petent in the group of main to leave
  (`petent.c:115`), and ends machines and clerks where they are, with `semlock` perhaps in
  their hands. Of all this `Main` has the handler of main and the end of the children.
- What reaches `raport.txt` of the refusals known: one that is still in the queue when the
  director's thread has stopped counts as known in `RefusalsReach`.
- `exit(1)` of a machine that cannot read the length of the line (`rejestracja.c:85-88`,
  `113-116`), which takes semaphores that are gone: main removes them when the machines have
  ended.
- Log lines, the layout of a report row, `faculty_to_str`.
- The course of time: sleeps end at any moment, the report is written at any moment after
  closing. The hours and arrivals are functions of the clock (`Ustawienia`).
- The child thread, apart from `people_count`.
- Failures of `malloc`, and what `free` does to memory that a signal handler still uses:
  the use of `res` by a SIGINT between `free_res` and `exit`, calls in a handler that are
  not async-signal-safe.
- In `Main`, petents: their log messages could wake the logger's thread, their use of
  objects that are gone is in `Petent` (`ExitOnRemovedIpc`).
- The four test programs, CMake and the scripts.

## Plan

Done: the shared state, the four programs and their composition, the lobby and the
service with their refinements, main, the logger, the settings, the runs and the proofs above. What is left:

- The report as rows with counts, and the 20 seconds and one refusal per second in
  which it is collected: a model of time, to say which refusals come too late.
- Petents in `Main`, whose log messages may wake the logger's thread.
- Larger fair runs: two desks and the cashier for `PetentsServed`.
