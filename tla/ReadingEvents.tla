--------------------------- MODULE ReadingEvents ---------------------------
(***************************************************************************)
(* The reading session above the outbox: ReadingEvents between the reader  *)
(* (EpubReaderActivity), the scheduler, which retries before a burst, and  *)
(* the position events of Outbox, of which every step here is a step.      *)
(*                                                                         *)
(* A position that could not be queued is held in memory and retried; as   *)
(* long as it is, the session stays with its book, whatever the reader     *)
(* shows.  The exchange runs only when no reader is on the screen.  The    *)
(* started, ended and statistics events of a session are left out: no      *)
(* property is about them.                                                 *)
(***************************************************************************)
EXTENDS Outbox

CONSTANTS
    Books,
    Positions       \* a percentage with its locator

ASSUME ReadingAssumption ==
    /\ None \notin Books \cup Positions
    /\ Bodies = Books \X Positions

VARIABLES
    book,       \* bookHash, None when not active()
    seen,       \* the last observed position, None until havePage
    held,       \* progressPending
    screen,     \* the book the reader shows
    tracked,    \* borgesTrackingReady
    resume,     \* what follows the write under way, "none" without one
    moved       \* the last movement of each book, until it may be lost

session == <<book, seen, held, screen, tracked, resume>>
allVars == <<vars, session, moved>>

ReadingInit ==
    /\ Init
    /\ book = None
    /\ seen = None
    /\ held = FALSE
    /\ screen = None
    /\ tracked = FALSE
    /\ resume = "none"
    /\ moved = [b \in Books |-> None]

-----------------------------------------------------------------------------
(* Faulty variants, not used by any action; they show that the properties at
   the end can fail. *)

(* beginBook does not look for a position that is still held. *)
OpenOverHeld(b) ==
    /\ pc = "idle" /\ resume = "none" /\ screen = None
    /\ screen' = b
    /\ book' = b /\ seen' = None /\ tracked' = TRUE /\ held' = FALSE
    /\ IF current = 0 THEN UNCHANGED vars ELSE EndBook
    /\ UNCHANGED <<resume, moved>>
-----------------------------------------------------------------------------
(* The main task is between two operations. *)
AtRest == pc = "idle" /\ resume = "none"

(* persistProgress of the position p; it fails at once when no identity can be
   reserved. *)
Persist(p, then) ==
    /\ PersistProgress(<<book, p>>)
    /\ seen' = p
    /\ held' = (held \/ pc' = "idle")
    /\ resume' = IF pc' = "idle" THEN "none" ELSE then

(* recordPosition, after a page was shown and saved, or a jump applied.  The
   first page of a session is no movement unless it is a jump. *)
RecordPosition(p, explicitJump) ==
    /\ AtRest /\ screen # None /\ tracked
    /\ p # seen \/ held \/ explicitJump
    /\ IF seen = None /\ ~explicitJump
       THEN /\ seen' = p
            /\ UNCHANGED <<vars, held, resume, moved>>
       ELSE /\ Persist(p, "page")
            /\ moved' = [moved EXCEPT ![screen] = p]
    /\ UNCHANGED <<book, screen, tracked>>

(* retryPendingProgress: the reader's loop, or the scheduler before a burst. *)
RetryPendingProgress ==
    /\ AtRest /\ held
    /\ Persist(seen, "page")
    /\ UNCHANGED <<book, screen, tracked, moved>>

(* endBook and beginBook reset the identity. *)
Forget == IF current = 0 THEN UNCHANGED vars ELSE EndBook

(* endBook, once nothing is held. *)
Ended == book' = None /\ seen' = None /\ Forget

(* beginBook after that; it refuses a device that is not paired, or whose queue
   cannot be opened.  When only the started event is not queued, the session is
   active and the reader tracks it all the same. *)
Begun(b) ==
    /\ Forget
    /\ seen' = None
    /\ \/ book' = b /\ tracked' = TRUE
       \/ book' = None /\ tracked' = FALSE

OpenBook(b) ==
    /\ AtRest /\ screen = None
    /\ screen' = b
    /\ IF held
       THEN Persist(seen, "begin") /\ tracked' = FALSE /\ UNCHANGED book
       ELSE Begun(b) /\ UNCHANGED <<held, resume>>
    /\ UNCHANGED moved

(* The destructor of the reader calls endBook and ignores its result; the sync
   screen of a book is entered only when it succeeds. *)
CloseBook(then) ==
    /\ AtRest /\ screen # None
    /\ then \in {"exit", "sync"}
    /\ IF held
       THEN /\ Persist(seen, then)
            /\ screen' = IF then = "exit" THEN None ELSE screen
            /\ UNCHANGED book
       ELSE /\ Ended
            /\ screen' = None
            /\ UNCHANGED <<held, resume>>
    /\ tracked' = (tracked /\ screen' # None)
    /\ UNCHANGED moved

(* The write under way goes on; persistProgress returns when pc is "idle". *)
Returns(queued) ==
    /\ held' = ~queued
    /\ resume' = IF queued /\ resume \in {"begin", "exit", "sync"} THEN resume ELSE "none"

WriteStep ==
    /\ \/ /\ ReplaceUnattempted
          /\ IF pc' = "idle" THEN Returns(TRUE) ELSE UNCHANGED <<held, resume>>
       \/ /\ ReserveReplacement
          /\ IF pc' = "idle" THEN Returns(FALSE) ELSE UNCHANGED <<held, resume>>
       \/ /\ Enqueue
          /\ Returns(pend'[current] = want)
    /\ UNCHANGED <<book, seen, screen, tracked, moved>>

(* What waited for the position to be queued. *)
Continue ==
    /\ pc = "idle" /\ resume \in {"begin", "exit", "sync"}
    /\ resume' = "none"
    /\ IF resume = "begin"
       THEN Begun(screen) /\ UNCHANGED screen
       ELSE Ended /\ screen' = None /\ tracked' = FALSE
    /\ UNCHANGED <<held, moved>>

(* An exchange: of runBurst, which has retried what is held and gives up when that
   fails, or of a sync screen, which calls syncOnce whatever is held. *)
Exchange ==
    /\ \/ /\ AtRest /\ screen = None
          /\ \E b \in Batches, unread \in SUBSET OnCard : StartExchange(b, unread)
       \/ \E k \in 1 .. MaxBatch : MarkAttempted(k) \/ RetireAcknowledged(k)
       \/ Post
       \/ \E i \in Ids, b \in Bodies : ServerTakes(i, b)
       \/ \E settled \in SUBSET Ids : Answer(settled)
       \/ FinishExchange
       \/ GiveUp
       \/ Boot
    /\ UNCHANGED <<session, moved>>

(* What was held, or being written, may be lost with the power. *)
LosePower ==
    /\ PowerLoss
    /\ moved' = [b \in Books |-> IF b = book /\ (held \/ pc # "idle")
                                 THEN None ELSE moved[b]]
    /\ book' = None /\ seen' = None /\ held' = FALSE
    /\ screen' = None /\ tracked' = FALSE /\ resume' = "none"

ReadingNext ==
    \/ \E p \in Positions, jump \in BOOLEAN : RecordPosition(p, jump)
    \/ RetryPendingProgress
    \/ \E b \in Books : OpenBook(b)
    \/ \E then \in {"exit", "sync"} : CloseBook(then)
    \/ WriteStep
    \/ Continue
    \/ Exchange
    \/ LosePower

ReadingSpec == ReadingInit /\ [][ReadingNext]_allVars

-----------------------------------------------------------------------------
Events(b) == {i \in Ids : newest[i] # None /\ newest[i][1] = b}

(* The last movement of a book is what its newest event says, or it is held for
   that book: another book that is opened, a write that fails at any of its
   steps, a sync or a reset in between never puts an older position, or the one
   of another book, in its place. *)
LastMovementIsKept ==
    \A b \in Books : moved[b] # None =>
        \/ book = b /\ seen = moved[b] /\ (held \/ pc # "idle")
        \/ \E i \in Events(b) :
              newest[i] = <<b, moved[b]>> /\ \A j \in Events(b) : j <= i
=============================================================================
