----------------------------- MODULE ScanCodes ------------------------------
(***************************************************************************)
(* From scan codes to characters: the ring of raw codes of keyb_driver.c,  *)
(* and process_scancode of keyhelp.c as its readchar calls it.  A code is  *)
(* its number in scan code set 1.  A character is the key it is on and the *)
(* column of the key's macro it is taken from; which sign that is, is left *)
(* out.                                                                    *)
(***************************************************************************)
EXTENDS Integers, Sequences, FiniteSets, SequencesExt

Break(code) == code + \h80

Bare(code) == code % \h80

Pressed(code) == code < \h80

\* key_state and key_internal_state with key_sequence, after start-up.
Modifiers == {"lshift", "rshift", "lctl", "rctl", "lalt", "ralt"}

Quiet == [held |-> {}, caps |-> FALSE, num |-> FALSE,
          ext |-> FALSE, pause |-> FALSE, seq |-> 0, prUp |-> FALSE, prDown |-> FALSE]

\* A result: no character (a modifier, an unknown key, the inside of a
\* sequence), or one, from a make code or a break code.
Nothing == [has |-> FALSE, make |-> FALSE, key |-> 0, column |-> "none"]

Data(code, key, column) == [has |-> TRUE, make |-> Pressed(code), key |-> key, column |-> column]

----------------------------------------------------------------------------
(* Simple codes. *)

Letters == (\h10..\h19) \cup (\h1E..\h26) \cup (\h2C..\h32)

\* Keys of the three macros, and those that are one character.
ShiftCapsCtl == Letters \cup {\h1A, \h1B}

ShiftCtl == {\h03, \h07, \h0C, \h2B}

Shift == {\h02, \h04, \h05, \h06, \h08, \h09, \h0A, \h0B, \h0D,
          \h27, \h28, \h29, \h33, \h34, \h35}

Single == {\h01, \h0E, \h0F, \h1C, \h37, \h39, \h57, \h58} \cup (\h3B..\h44) \cup (\h47..\h53)

ModifierOf(k) ==
  CASE k = \h1D -> "lctl" [] k = \h2A -> "lshift" [] k = \h36 -> "rshift" [] k = \h38 -> "lalt"

Shifted(s) == s.held \cap {"lshift", "rshift"} # {}

Ctl(s) == s.held \cap {"lctl", "rctl"} # {}

Column(s, k) ==
  CASE k \in ShiftCapsCtl \cup ShiftCtl /\ Ctl(s) -> "ctl"
    [] k \in ShiftCapsCtl /\ ~ Ctl(s) -> IF Shifted(s) # s.caps THEN "shift" ELSE "plain"
    [] k \in ShiftCtl /\ ~ Ctl(s) -> IF Shifted(s) THEN "shift" ELSE "plain"
    [] k \in Shift -> IF Shifted(s) THEN "shift" ELSE "plain"
    [] OTHER -> "plain"

Held(s, m, code) ==
  [s EXCEPT !.held = IF Pressed(code) THEN @ \cup {m} ELSE @ \ {m}]

NoPause(s) == [s EXCEPT !.pause = FALSE, !.seq = 0]

\* The next code of a pause sequence, which stands at n.
Staged(s, n) == s.pause /\ s.seq = n

Stage(s) == [s EXCEPT !.seq = @ + 1]

\* process_simple_scan.
SimpleScan(s, code) ==
  LET k == Bare(code)
      on(t) == [state |-> t, result |-> Nothing]
  IN  CASE k = \h1D -> IF Staged(s, 0) THEN on(Stage(s)) ELSE on(Held(NoPause(s), "lctl", code))
        [] k \in {\h2A, \h36, \h38} -> on(Held(s, ModifierOf(k), code))
        [] k = \h3A -> on([s EXCEPT !.caps = IF Pressed(code) THEN ~ @ ELSE @])
        [] k = \h45 -> IF Staged(s, 1) THEN on(Stage(s))
                       ELSE on([NoPause(s) EXCEPT !.num = IF Pressed(code) THEN ~ @ ELSE @])
        [] k = \h61 -> IF ~ s.pause THEN on([s EXCEPT !.pause = TRUE, !.seq = 0])
                       ELSE IF s.seq = 2 THEN on(Stage(s)) ELSE on(NoPause(s))
        [] k \in ShiftCapsCtl \cup ShiftCtl \cup Shift \cup Single ->
             [state |-> s, result |-> Data(code, k, Column(s, k))]
        [] OTHER -> on(s)

----------------------------------------------------------------------------
(* Codes after an E0. *)

ExtendedKeys == {\h1C, \h35, \h48, \h4B, \h4D, \h50, \h53}

\* The keys that have a code both ways are told apart by their number.
Ext(k) == k + \h100

PrintScreen == Ext(\h37)

\* Mutant: the E0 of a print screen sequence is not used up.
ExtendedScanStuck(s, code) ==
  LET k == Bare(code)
      t == [s EXCEPT !.ext = FALSE]
  IN  CASE k = \h1D -> [state |-> Held(t, "rctl", code), result |-> Nothing]
        [] k = \h38 -> [state |-> Held(t, "ralt", code), result |-> Nothing]
        [] k = \h2A /\ s.prUp ->
             [state |-> [t EXCEPT !.prUp = FALSE], result |-> Data(code, PrintScreen, "plain")]
        [] k = \h2A /\ ~ s.prUp -> [state |-> [s EXCEPT !.prDown = TRUE], result |-> Nothing]
        [] k = \h37 /\ s.prDown ->
             [state |-> [t EXCEPT !.prDown = FALSE], result |-> Data(code, PrintScreen, "plain")]
        [] k = \h37 /\ ~ s.prDown -> [state |-> [s EXCEPT !.prUp = TRUE], result |-> Nothing]
        [] k \in ExtendedKeys -> [state |-> t, result |-> Data(code, Ext(k), "plain")]
        [] OTHER -> [state |-> t, result |-> Nothing]

\* process_extended_scan: a print screen is two such codes, in one order when
\* the key goes down and in the other when it comes up.
ExtendedScan(s, code) ==
  LET k == Bare(code)
      t == [s EXCEPT !.ext = FALSE]
  IN  CASE k = \h1D -> [state |-> Held(t, "rctl", code), result |-> Nothing]
        [] k = \h38 -> [state |-> Held(t, "ralt", code), result |-> Nothing]
        [] k = \h2A /\ s.prUp ->
             [state |-> [t EXCEPT !.prUp = FALSE], result |-> Data(code, PrintScreen, "plain")]
        [] k = \h2A /\ ~ s.prUp -> [state |-> [t EXCEPT !.prDown = TRUE], result |-> Nothing]
        [] k = \h37 /\ s.prDown ->
             [state |-> [t EXCEPT !.prDown = FALSE], result |-> Data(code, PrintScreen, "plain")]
        [] k = \h37 /\ ~ s.prDown -> [state |-> [t EXCEPT !.prUp = TRUE], result |-> Nothing]
        [] k \in ExtendedKeys -> [state |-> t, result |-> Data(code, Ext(k), "plain")]
        [] OTHER -> [state |-> t, result |-> Nothing]

----------------------------------------------------------------------------

\* process_scancode.
ProcessScancode(s, code) ==
  LET simple(t) == SimpleScan([t EXCEPT !.prUp = FALSE, !.prDown = FALSE], code)
  IN  CASE s.ext -> ExtendedScan(s, code)
        [] ~ s.ext /\ code = \h9D ->
             IF Staged(s, 3) THEN [state |-> Stage(s), result |-> Nothing] ELSE simple(NoPause(s))
        [] ~ s.ext /\ code = \hC5 ->
             IF Staged(s, 4)
             THEN [state |-> [s EXCEPT !.pause = FALSE], result |-> Data(code, \hE1, "plain")]
             ELSE simple(NoPause(s))
        [] ~ s.ext /\ code = \hE0 -> [state |-> [s EXCEPT !.ext = TRUE], result |-> Nothing]
        [] OTHER -> simple(s)

\* The ring of raw codes.
KeysNum == 5   \* bound: CAT_KEYB_KEYS_NUM is 110

EmptyRing(i) == [buf |-> [j \in 0..KeysNum - 1 |-> 0], head |-> i, tail |-> i]

Wrapped(i) == (i + 1) % KeysNum

\* Mutant: a ring that is full is not noticed.
RawEnqueueOver(r, code) == [r EXCEPT !.buf[r.head] = code, !.head = Wrapped(@)]

\* A code that finds the ring full is dropped.
RawEnqueue(r, code) ==
  IF Wrapped(r.head) = r.tail THEN r ELSE [r EXCEPT !.buf[r.head] = code, !.head = Wrapped(@)]

RawDequeue(r) ==
  IF r.head = r.tail THEN [code |-> -1, ring |-> r]
  ELSE [code |-> r.buf[r.tail], ring |-> [r EXCEPT !.tail = Wrapped(@)]]

\* A code is a char with a sign.
Signed(code) == IF code = \hFF THEN -1 ELSE code

\* readchar hands on the characters of make codes.  FF, a char of -1, is what
\* an empty ring returns, and goes no further.
ReadChar(at) ==
  LET d == RawDequeue(at.ring)
      r == ProcessScancode(at.state, d.code)
  IN  IF Signed(d.code) = -1 THEN [at EXCEPT !.ring = d.ring]
      ELSE [at EXCEPT !.ring = d.ring, !.state = r.state,
                      !.typed = IF r.result.has /\ r.result.make
                                THEN Append(@, <<r.result.key, r.result.column>>) ELSE @]

\* The interrupt, as far as readchar: a code goes through the ring, where it
\* is alone, for nothing lets an interrupt in meanwhile.
Interrupt(at, code) == ReadChar([at EXCEPT !.ring = RawEnqueue(@, code), !.pressed = @ + 1])

\* A sequence of codes, from state s with the ring at index i.
ReadCharsAt(s, codes, i) ==
  FoldLeft(Interrupt, [state |-> s, typed |-> <<>>, ring |-> EmptyRing(i), pressed |-> 0], codes)

ReadChars(s, codes) == ReadCharsAt(s, codes, 0)

----------------------------------------------------------------------------
(***************************************************************************)
(* Keys, the codes they send, and what ought to become of them.            *)
(***************************************************************************)

\* A key of the keyboard: a number, of 100 hex and more with an E0 before it.
PlainKeys == ShiftCapsCtl \cup ShiftCtl \cup Shift \cup Single

ExtPlain == {Ext(k) : k \in ExtendedKeys}

ModifierKeys == {\h1D, \h2A, \h36, \h38, Ext(\h1D), Ext(\h38)}

Locks == {\h3A, \h45}

Pause == \hE1

AllKeys == PlainKeys \cup ExtPlain \cup ModifierKeys \cup Locks \cup {PrintScreen, Pause}

ModifierBit(k) ==
  CASE k = Ext(\h1D) -> "rctl" [] k = Ext(\h38) -> "ralt" [] OTHER -> ModifierOf(k)

Downs(k) ==
  CASE k = PrintScreen -> <<\hE0, \h2A, \hE0, \h37>>
    [] k = Pause -> <<\hE1, \h1D, \h45, \hE1, \h9D, \hC5>>
    [] k >= \h100 /\ k # PrintScreen -> <<\hE0, k - \h100>>
    [] OTHER -> <<k>>

Ups(k) ==
  CASE k = PrintScreen -> <<\hE0, \hB7, \hE0, \hAA>>
    [] k = Pause -> <<>>
    [] k >= \h100 /\ k # PrintScreen -> <<\hE0, Break(k - \h100)>>
    [] OTHER -> <<Break(k)>>

\* Between keys: any modifiers held, any locks on.
Between == {[Quiet EXCEPT !.held = h, !.caps = c, !.num = n, !.prDown = d, !.seq = q] :
              h \in SUBSET Modifiers, c, n, d \in BOOLEAN, q \in {0, 4}}

Same(s) == <<s.held, s.caps, s.num>>

\* What key k types, when it goes down: a letter by shift, ctl and caps lock.
Types(s, k) ==
  IF k \in Letters
  THEN IF s.held \cap {"lctl", "rctl"} # {} THEN {<<k, "ctl">>}
       ELSE IF (s.held \cap {"lshift", "rshift"} # {}) = s.caps THEN {<<k, "plain">>}
       ELSE {<<k, "shift">>}
  ELSE IF k \in PlainKeys \cup ExtPlain \cup {PrintScreen}
  THEN {k} \X {"plain", "shift", "ctl"} ELSE {}

GoesDown(s, k) ==
  LET r == ReadChars(s, Downs(k))
  IN  /\ r.state \in Between
      /\ Same(r.state) = << s.held \cup {ModifierBit(m) : m \in {k} \cap ModifierKeys},
                            s.caps # (k = \h3A), s.num # (k = \h45) >>
      /\ IF Types(s, k) = {} THEN r.typed = <<>>
         ELSE Len(r.typed) = 1 /\ r.typed[1] \in Types(s, k)

ComesUp(s, k) ==
  LET r == ReadChars(s, Ups(k))
  IN  /\ r.state \in Between
      /\ Same(r.state) = << s.held \ {ModifierBit(m) : m \in {k} \cap ModifierKeys},
                            s.caps, s.num >>
      /\ r.typed = <<>>

\* States a lost code leaves behind: any at all.
Anything == {[Quiet EXCEPT !.ext = e, !.pause = p, !.seq = q, !.prUp = u, !.prDown = d] :
               e, p, u, d \in BOOLEAN, q \in 0..4}

Tap(k) == Downs(k) \o Ups(k)

\* Whatever codes come and wherever in the ring, nothing stays in it, nothing
\* is dropped and each is counted; and a ring that is not read gives back the
\* first codes in their order and then says that it is empty
\* (keyb_driver.c:77-119, 206-237).
RingPassesOn ==
  /\ \A k \in AllKeys, i \in 0..KeysNum - 1 :
       LET codes == Tap(k) \o <<\hFF>> \o Tap(\h1E)
           r == ReadCharsAt(Quiet, codes, i)
       IN  /\ r.ring.head = r.ring.tail /\ r.pressed = Len(codes)
           /\ r.typed = ReadChars(Quiet, Tap(k)).typed \o ReadChars(ReadChars(Quiet, Tap(k)).state, Tap(\h1E)).typed
  /\ \A i \in 0..KeysNum - 1, n \in 0..KeysNum + 1 :
       LET full == FoldLeft(RawEnqueue, EmptyRing(i), [j \in 1..n |-> j])
           kept == IF n < KeysNum THEN n ELSE KeysNum - 1
           read == FoldLeft(LAMBDA at, j : LET d == RawDequeue(at.ring)
                                           IN [ring |-> d.ring, codes |-> Append(at.codes, d.code)],
                            [ring |-> full, codes |-> <<>>], [j \in 1..kept + 1 |-> j])
       IN  read.codes = Append([j \in 1..kept |-> j], -1)

\* One character for a key that goes down and none when it comes up, none for
\* modifiers, locks and the pause sequence, whose inner codes are those of
\* ctl and num lock; the modifiers are the keys that are held, from any state
\* between keys (keyhelp.c:64-653).  And a code that is lost, which leaves any
\* state behind (keyb_driver.c:292-297), is forgotten when the left ctl key
\* has been tapped twice and the right one once.
KeysAgree ==
  /\ \A s \in Between, k \in AllKeys : GoesDown(s, k) /\ (~ s.prDown => ComesUp(s, k))
  /\ \A s \in Anything :
       LET t == ReadChars(s, Tap(\h1D) \o Tap(\h1D) \o Tap(Ext(\h1D))).state
       IN  t \in Between /\ t.held = {}
  /\ RingPassesOn
=============================================================================
