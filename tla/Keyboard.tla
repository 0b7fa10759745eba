------------------------------ MODULE Keyboard ------------------------------
(***************************************************************************)
(* The ring of typed characters of keyb_driver.c, between the keyboard's   *)
(* interrupt, which fills it, and the system calls getchar and readline,   *)
(* which empty it with interrupts on and no lock.                          *)
(*                                                                         *)
(* The interrupt comes through a gate that keeps interrupts off: it is one *)
(* action.  A reader is preempted and interrupted between any two accesses *)
(* to the ring.  The two semaphores are taken as KernSched shows them: a   *)
(* count, and the threads that wait in the order they came.                *)
(***************************************************************************)
EXTENDS Integers, Sequences, FiniteSets

CONSTANTS
  Readers,    \* threads that call getchar and readline
  GetsChars,  \* those of them that call getchar
  GetsLines,  \* those of them that call readline
  Plain,      \* characters that are neither '\n' nor '\b'
  Lens,       \* the lengths of buffers given to readline
  Size,       \* CAT_KEYB_KEYS_NUM
  MaxCount,   \* bound: keys are pressed until wait_for_chars counts so many
  None

ASSUME KeyboardAssumption ==
  /\ Size \in Nat /\ Size > 1
  /\ Lens \subseteq Nat
  /\ GetsChars \cup GetsLines \subseteq Readers
  /\ IsFiniteSet(Readers)

VARIABLES
  keys_ring_buffer, \* the characters, by index
  keys_head,        \* the index the interrupt writes at
  keys_tail,        \* the index readers read at
  wait_for_chars,   \* the semaphore of getchar
  wait_for_readline,\* the semaphore of readline
  pc,               \* where every reader is in its call
  call,             \* what it wants: a character, a line, the rest of a line
  left,             \* how many characters its buffer still takes
  slot,             \* the index it has loaded, and will store one more than
  curr_char,        \* the character it has loaded from there
  keyb_char,        \* the last character its call was given
  strayed,          \* history: two of them have met inside the ring; the model stops
  lineLost          \* history: a '\n' went elsewhere than to a readline

semvars == <<wait_for_chars, wait_for_readline>>
ringvars == <<keys_ring_buffer, keys_head, keys_tail>>
locals == <<pc, call, left, slot, curr_char, keyb_char>>
history == <<strayed, lineLost>>
keyvars == <<ringvars, semvars, locals, history>>

Newline == "nl"
Backspace == "bs"
Nul == "nul"
NoChar == "none"
Keys == Plain \cup {Newline, Backspace}

Index == 0..(Size - 1)

\* The remainder of C: its sign is the dividend's.
Rem(x) == IF x < 0 THEN -((-x) % Size) ELSE x % Size

KBInit ==
  /\ keys_ring_buffer = [i \in Index |-> Nul]
  /\ keys_head = 0 /\ keys_tail = 0
  /\ wait_for_chars = [count |-> 0, queue |-> <<>>]
  /\ wait_for_readline = [count |-> 0, queue |-> <<>>]
  /\ pc = [t \in Readers |-> "user"]
  /\ call = [t \in Readers |-> "none"]
  /\ left = [t \in Readers |-> 0]
  /\ slot = [t \in Readers |-> 0]
  /\ curr_char = [t \in Readers |-> None]
  /\ keyb_char = [t \in Readers |-> None]
  /\ strayed = FALSE /\ lineLost = FALSE

----------------------------------------------------------------------------
(* Semaphores. *)

\* sem_wait by t: it goes on, or is last in the queue.
Waited(s, t) ==
  [count |-> s.count - 1,
   queue |-> IF s.count > 0 THEN s.queue ELSE Append(s.queue, t)]

\* sem_signal: the first in the queue goes on, if there is one.
Signalled(s) ==
  [count |-> s.count + 1,
   queue |-> IF s.count < 0 /\ s.queue # <<>> THEN Tail(s.queue) ELSE s.queue]

Waits(t) == \E s \in {wait_for_chars, wait_for_readline} :
              \E i \in DOMAIN s.queue : s.queue[i] = t

----------------------------------------------------------------------------
(* The ring, and what is in it as long as nobody has strayed. *)

Typed == [i \in 1..((keys_head - keys_tail) % Size) |->
            keys_ring_buffer[(keys_tail + i - 1) % Size]]

LooksEmpty == keys_head = keys_tail

\* Mutant: the next index is not wrapped before it is compared.
LooksFullUnwrapped == keys_head + 1 = keys_tail

LooksFull == Rem(keys_head + 1) = keys_tail

InDequeue(t) == pc[t] \in {"take", "store", "wrap"}

----------------------------------------------------------------------------
(* The interrupt: a key, by the time process_scancode has made a character   *)
(* of it.  The raw ring is left out: each interrupt puts one code there and  *)
(* takes it out again.                                                       *)

\* Mutant: any key starts the thread that waits for a line.
WakeUpEarly(k) ==
  IF wait_for_readline.queue # <<>>
  THEN /\ wait_for_readline' = Signalled(wait_for_readline)
       /\ UNCHANGED wait_for_chars
  ELSE /\ wait_for_chars' = Signalled(wait_for_chars)
       /\ UNCHANGED wait_for_readline

\* A '\n' starts the first thread that waits for a line; characters are
\* counted for getchar unless somebody waits for a line.
WakeUp(k) ==
  IF wait_for_readline.queue # <<>>
  THEN /\ wait_for_readline' = IF k = Newline THEN Signalled(wait_for_readline)
                               ELSE wait_for_readline
       /\ UNCHANGED wait_for_chars
  ELSE /\ wait_for_chars' = Signalled(wait_for_chars)
       /\ UNCHANGED wait_for_readline

\* A key comes: bottom half and wake-up.
Key(k) ==
  /\ ~ strayed
  /\ wait_for_chars.count < MaxCount
  /\ WakeUp(k)
  /\ UNCHANGED <<keys_tail, locals>>

\* keyb_processed_buffer_enqueue finds no room: even a '\b' is dropped.
KeyDropped(k) ==
  /\ Key(k)
  /\ k = Backspace => ~ LooksEmpty
  /\ LooksFull
  /\ lineLost' = (lineLost \/ k = Newline)
  /\ UNCHANGED <<keys_ring_buffer, keys_head, strayed>>

\* Storing strays when the ring is full and does not look it, because a
\* reader is still to wrap the tail.
KeyStored(k) ==
  /\ Key(k)
  /\ k # Backspace /\ ~ LooksFull
  /\ keys_ring_buffer' = [keys_ring_buffer EXCEPT ![keys_head] = k]
  /\ keys_head' = Rem(keys_head + 1)
  /\ strayed' = (keys_tail = Size /\ keys_head = Size - 1)
  /\ UNCHANGED lineLost

\* A '\b' in an empty ring does nothing.  Erasing strays when the index goes
\* below 0, in front of the ring, and when a reader is taking what is erased.
KeyErases ==
  /\ Key(Backspace)
  /\ ~ LooksFull /\ ~ LooksEmpty
  /\ keys_head' = Rem(keys_head - 1)
  /\ keys_ring_buffer' = [i \in Index |-> IF i = keys_head' THEN Nul ELSE keys_ring_buffer[i]]
  /\ strayed' = \/ keys_head' < 0
                \/ keys_head' = keys_tail /\ \E t \in Readers : pc[t] \in {"take", "store"}
  /\ lineLost' = \/ lineLost
                 \/ keys_head' >= 0 /\ keys_ring_buffer[keys_head'] = Newline

----------------------------------------------------------------------------
(* The readers. *)

\* synchronous_readchar, up to its sem_wait.
GetChar(t) ==
  /\ ~ strayed /\ pc[t] = "user" /\ t \in GetsChars
  /\ wait_for_chars' = Waited(wait_for_chars, t)
  /\ pc' = [pc EXCEPT ![t] = "test"]
  /\ call' = [call EXCEPT ![t] = "char"]
  /\ keyb_char' = [keyb_char EXCEPT ![t] = None]
  /\ UNCHANGED <<ringvars, wait_for_readline, left, slot, curr_char, history>>

\* synchronous_readline, up to its sem_wait.  With no room in the buffer the
\* character that decides whether to drain is the uninitialised keyb_char.
ReadLine(t, len) ==
  /\ ~ strayed /\ pc[t] = "user" /\ t \in GetsLines
  /\ wait_for_readline' = Waited(wait_for_readline, t)
  /\ IF len > 0
     THEN /\ pc' = [pc EXCEPT ![t] = "test"]
          /\ call' = [call EXCEPT ![t] = "line"]
     ELSE /\ \E l \in {"test", "return"} : pc' = [pc EXCEPT ![t] = l]
          /\ call' = [call EXCEPT ![t] = "drain"]
  /\ left' = [left EXCEPT ![t] = len]
  /\ keyb_char' = [keyb_char EXCEPT ![t] = None]
  /\ UNCHANGED <<ringvars, wait_for_chars, slot, curr_char, history>>

Return(t) ==
  /\ ~ strayed /\ pc[t] = "return" /\ ~ Waits(t)
  /\ pc' = [pc EXCEPT ![t] = "user"]
  /\ call' = [call EXCEPT ![t] = "none"]
  /\ left' = [left EXCEPT ![t] = 0]
  /\ UNCHANGED <<ringvars, semvars, slot, curr_char, keyb_char, history>>

\* Where a call goes with the character c it was given: readline ends at a
\* '\n', fills its buffer, and drains the rest of the line.
GoOn(t, c) ==
  LET more == CASE call[t] = "char" -> "none"
                [] call[t] = "line" ->
                     IF c = Newline THEN "none" ELSE IF left[t] > 1 THEN "line" ELSE "drain"
                [] call[t] = "drain" -> IF c \in {Newline, NoChar} THEN "none" ELSE "drain"
  IN  /\ call' = [call EXCEPT ![t] = more]
      /\ pc' = [pc EXCEPT ![t] = IF more = "none" THEN "user" ELSE "test"]
      /\ left' = [left EXCEPT ![t] = IF more = "line" THEN @ - 1 ELSE 0]

\* A reader at label l, woken.
AtRing(t, l) ==
  /\ ~ strayed /\ pc[t] = l /\ ~ Waits(t)
  /\ UNCHANGED <<keys_ring_buffer, keys_head, semvars>>

DqEmpty(t) ==
  /\ AtRing(t, "test") /\ LooksEmpty
  /\ keyb_char' = [keyb_char EXCEPT ![t] = NoChar]
  /\ GoOn(t, NoChar)
  /\ UNCHANGED <<keys_tail, slot, curr_char, history>>

\* Going in strays when another is inside: both may take one character, and
\* the one that wraps may undo the other's step.
DqTest(t) ==
  /\ AtRing(t, "test") /\ ~ LooksEmpty
  /\ pc' = [pc EXCEPT ![t] = "take"]
  /\ strayed' = \E u \in Readers \ {t} : InDequeue(u)
  /\ UNCHANGED <<keys_tail, call, left, slot, curr_char, keyb_char, lineLost>>

DqTake(t) ==
  /\ AtRing(t, "take")
  /\ slot' = [slot EXCEPT ![t] = keys_tail]
  /\ curr_char' = [curr_char EXCEPT ![t] = keys_ring_buffer[keys_tail]]
  /\ pc' = [pc EXCEPT ![t] = "store"]
  /\ UNCHANGED <<keys_tail, call, left, keyb_char, strayed, lineLost>>

DqStore(t) ==
  /\ AtRing(t, "store")
  /\ keys_tail' = slot[t] + 1
  /\ keyb_char' = [keyb_char EXCEPT ![t] = curr_char[t]]
  /\ slot' = [slot EXCEPT ![t] = 0]
  /\ curr_char' = [curr_char EXCEPT ![t] = None]
  /\ pc' = [pc EXCEPT ![t] = "wrap"]
  /\ lineLost' = (lineLost \/ (call[t] = "char" /\ curr_char[t] = Newline))
  /\ UNCHANGED <<call, left, strayed>>

DqWrap(t) ==
  /\ AtRing(t, "wrap")
  /\ keys_tail' = keys_tail % Size
  /\ GoOn(t, keyb_char[t])
  /\ UNCHANGED <<slot, curr_char, keyb_char, history>>

----------------------------------------------------------------------------

KBNext ==
  \/ \E k \in Keys : KeyDropped(k) \/ KeyStored(k)
  \/ KeyErases
  \/ \E t \in Readers :
       \/ GetChar(t) \/ Return(t)
       \/ \E len \in Lens : ReadLine(t, len)
       \/ DqEmpty(t) \/ DqTest(t) \/ DqTake(t) \/ DqStore(t) \/ DqWrap(t)

KBSpec == KBInit /\ [][KBNext]_keyvars

----------------------------------------------------------------------------
(* What the ring promises its readers, and until when. *)
\* The shape of the state.
KeyTypeOK ==
  /\ keys_ring_buffer \in [Index -> Keys \cup {Nul}]
  /\ keys_head \in -1..(Size - 1) /\ keys_tail \in 0..Size
  /\ keys_tail = Size => \E t \in Readers : pc[t] = "wrap"
  /\ pc \in [Readers -> {"user", "test", "take", "store", "wrap", "return"}]
  /\ call \in [Readers -> {"none", "char", "line", "drain"}]
  /\ keyb_char \in [Readers -> Keys \cup {Nul, NoChar, None}]
  /\ \A s \in {wait_for_chars, wait_for_readline} :
       Len(s.queue) = IF s.count < 0 THEN -s.count ELSE 0

\* The threads a '\n' has started and that are still to take a '\n'.
LinesDue == {t \in Readers :
  /\ call[t] \in {"line", "drain"} /\ ~ Waits(t) /\ pc[t] # "return"
  /\ ~ (pc[t] = "wrap" /\ keyb_char[t] = Newline)}

LinesTyped == {i \in DOMAIN Typed : Typed[i] = Newline}

\* A thread started for a line finds one (keyb_driver.c:337-360 against
\* 390-395), and so does each of several, although it gets the oldest line
\* and not the one that started it: unless a '\n' was dropped by a full ring,
\* erased, or read by getchar, or the ring has strayed; and the state has its
\* shape.
LinesForReaders ==
  /\ KeyTypeOK
  /\ ~ (lineLost \/ strayed) => Cardinality(LinesDue) <= Cardinality(LinesTyped)

\* The ring is a line buffer (keyb_driver.c:129-180), though readers use no
\* lock and the interrupt comes between their loads and stores, as long as
\* two readers are not inside together, a '\b' does not erase at index 0 or
\* under a reader's hands, and no key meets a full ring whose tail is to wrap.
LB == INSTANCE LineBuffer WITH
  Room <- Size - 1, line <- Typed, read <- keyb_char
ImplementsLineBuffer == LB!LBInit /\ [][~ strayed' => LB!LBNext]_(LB!lbvars)

\* Beside the ring: scan codes are read as the keys they come from (KeysAgree).
\* This does not depend on the state, and is looked at in the initial one only.
Scan == INSTANCE ScanCodes
KeysSound == KBInit => Scan!KeysAgree
=============================================================================
