-------------------------------- MODULE Auth --------------------------------
(***************************************************************************)
(* The login of the one configured user (server/internal/auth): a PIN is    *)
(* mailed, entered, and exchanged for a signed token.                       *)
(*                                                                         *)
(* The PIN and the times of the requests are kept in memory under a mutex,  *)
(* which RequestPIN holds while the mail is sent; a restart forgets them.   *)
(* The signing secret is a file.  Time advances in ticks; a PIN that is     *)
(* drawn may be any, an earlier one included.                               *)
(***************************************************************************)
EXTENDS Selection, FiniteSets

CONSTANTS
  Pins,         \* what newPIN draws and clients guess
  Window,       \* rateWindow, 15 minutes in the code
  PinTTL,       \* defaultPinTTL, 10 minutes
  TokenTTL,     \* a week
  MaxRequests,  \* maxPinRequests, 5
  MaxAttempts,  \* maxVerifyAttempts, 5
  MaxTime,      \* bound: ticks in a behaviour
  MaxBoots,     \* bound: starts of the server
  MaxUnread     \* bound: starts that cannot read the secret's file

ASSUME LimitsAssumption ==
  /\ Window \in Nat \ {0} /\ PinTTL \in Nat \ {0} /\ TokenTTL \in Nat \ {0}
  /\ MaxRequests \in Nat \ {0} /\ MaxAttempts \in Nat \ {0}
ASSUME PinsAssumption == Pins \subseteq Nat \ {0}
ASSUME BoundsAssumption == MaxTime \in Nat /\ MaxBoots \in Nat /\ MaxUnread \in Nat

VARIABLES
  now,
  up,        \* the server runs
  record,    \* pins[email], or NoRecord
  requests,  \* requests[email]: the times of the requests that count
  sending,   \* the mutex is held by a RequestPIN whose mail is under way
  file,      \* the secret's file: 0 missing or too short, else the secret
  secret,    \* the secret of this process
  tokens,    \* the tokens issued: when, and under which secret
  answer,    \* what the last call answered, and the PIN it gave
  boots, unread,
  served,    \* history of this process: when a request was not refused
  tries,     \* history of this process: when a PIN was compared with a guess
  latest     \* history of this process: the last PIN drawn and what became of it

server  == <<up, record, requests, sending, secret>>
disk    == <<file, boots, unread>>
history == <<served, tries, latest>>
vars == <<now, up, record, requests, sending, file, secret, tokens, answer, boots,
          unread, served, tries, latest>>

\* No PIN; no entry in pins; no PIN drawn by this process.
None == 0
NoRecord  == [pin |-> None, expires |-> 0, attempts |-> 0]
NoHistory == [pin |-> None, at |-> 0, logins |-> 0, wrong |-> 0]

Silence == [kind |-> "none", pin |-> None]
Say(kind) == answer' = [Silence EXCEPT !.kind = kind]

\* A handler of this process may take the mutex.
Enter == up /\ ~sending

-----------------------------------------------------------------------------
(* RequestPIN                                                               *)

\* Slip: the window is the life of a PIN.
KeptForTTL == Selected(requests, {i \in DOMAIN requests : now - requests[i] < PinTTL})

\* The earlier requests that still count.
Kept == Selected(requests, {i \in DOMAIN requests : now - requests[i] < Window})

\* Slip: a refused request counts as well.
RefuseAndCount ==
  /\ Enter
  /\ Len(Kept) >= MaxRequests
  /\ requests' = Append(Kept, now)
  /\ Say("request refused")
  /\ UNCHANGED <<now, up, record, sending, secret, tokens, disk, history>>

RefuseRequest ==
  /\ Enter
  /\ Len(Kept) >= MaxRequests
  /\ requests' = Kept
  /\ Say("request refused")
  /\ UNCHANGED <<now, up, record, sending, secret, tokens, disk, history>>

\* The PIN replaces the one before, then the mail goes out under the mutex.
SendPIN(pin) ==
  /\ Enter
  /\ Len(Kept) < MaxRequests
  /\ requests' = Append(Kept, now)
  /\ record' = [pin |-> pin, expires |-> now + PinTTL, attempts |-> 0]
  /\ sending' = TRUE
  /\ answer' = Silence
  /\ served' = Append(served, now)
  /\ latest' = [pin |-> pin, at |-> now, logins |-> 0, wrong |-> 0]
  /\ UNCHANGED <<now, up, secret, tokens, disk, tries>>

\* No PIN can be drawn: the request counts, the PIN before stays.
NoPinDrawn ==
  /\ Enter
  /\ Len(Kept) < MaxRequests
  /\ requests' = Append(Kept, now)
  /\ Say("error")
  /\ served' = Append(served, now)
  /\ UNCHANGED <<now, up, record, sending, secret, tokens, disk, tries, latest>>

\* The mail server answers; whether it took the mail changes nothing here.
MailAnswered ==
  /\ sending
  /\ sending' = FALSE
  /\ Say("sent") \/ Say("error")
  /\ UNCHANGED <<now, up, record, requests, secret, tokens, disk, history>>

-----------------------------------------------------------------------------
(* Verify                                                                   *)

Expired == now > record.expires

\* No PIN, or one that expired, which is then forgotten.
VerifyNone ==
  /\ Enter
  /\ record.pin # None => Expired
  /\ record' = NoRecord
  /\ Say("invalid")
  /\ UNCHANGED <<now, up, requests, sending, secret, tokens, disk, history>>

\* Slip: one attempt more.
OpenOneMore == Enter /\ record.pin # None /\ ~Expired /\ record.attempts <= MaxAttempts

\* A PIN that can still be compared with.
OpenPIN == Enter /\ record.pin # None /\ ~Expired /\ record.attempts < MaxAttempts

VerifyLocked ==
  /\ Enter /\ record.pin # None /\ ~Expired
  /\ ~OpenPIN
  /\ Say("locked")
  /\ UNCHANGED <<now, server, tokens, disk, history>>

\* Slip: the attempt is counted in a copy of the record.
VerifyWrongUncounted(guess) ==
  /\ OpenPIN /\ guess # record.pin
  /\ Say("invalid")
  /\ tries' = Append(tries, now)
  /\ latest' = [latest EXCEPT !.wrong = @ + 1]
  /\ UNCHANGED <<now, server, tokens, disk, served>>

VerifyWrong(guess) ==
  /\ OpenPIN /\ guess # record.pin
  /\ record' = [record EXCEPT !.attempts = @ + 1]
  /\ Say("invalid")
  /\ tries' = Append(tries, now)
  /\ latest' = [latest EXCEPT !.wrong = @ + 1]
  /\ UNCHANGED <<now, up, requests, sending, secret, tokens, disk, served>>

\* Slip: the PIN is not used up.
VerifyRightAgain(guess) ==
  /\ OpenPIN /\ guess = record.pin
  /\ tokens' = tokens \union {[at |-> now, key |-> secret]}
  /\ answer' = [kind |-> "login", pin |-> guess]
  /\ tries' = Append(tries, now)
  /\ latest' = [latest EXCEPT !.logins = @ + 1]
  /\ UNCHANGED <<now, server, disk, served>>

\* The PIN is used up and a token issued.
VerifyRight(guess) ==
  /\ OpenPIN /\ guess = record.pin
  /\ record' = NoRecord
  /\ tokens' = tokens \union {[at |-> now, key |-> secret]}
  /\ answer' = [kind |-> "login", pin |-> guess]
  /\ tries' = Append(tries, now)
  /\ latest' = [latest EXCEPT !.logins = @ + 1]
  /\ UNCHANGED <<now, up, requests, sending, secret, disk, served>>

\* verifyToken: signed with this process's secret, and not expired.
Accepted(t) == t.key = secret /\ now < t.at + TokenTTL

-----------------------------------------------------------------------------
(* The process                                                              *)

\* Slip: a start draws a secret of its own.
BootFresh ==
  /\ ~up /\ boots < MaxBoots
  /\ boots' = boots + 1
  /\ unread' = unread
  /\ file' = boots + 1
  /\ up' = TRUE /\ secret' = boots + 1
  /\ answer' = Silence
  /\ UNCHANGED <<now, record, requests, sending, tokens, history>>

\* LoadOrCreateSecret: the file is used if it can be read and is long enough,
\* else a secret is drawn (here the number of the start) and written over it.
\* Writing may fail, leaving a file that is too short, and then the server exits.
Boot ==
  /\ ~up /\ boots < MaxBoots
  /\ boots' = boots + 1
  /\ \E readable \in BOOLEAN :
       /\ IF readable THEN unread' = unread ELSE unread < MaxUnread /\ unread' = unread + 1
       /\ \/ readable /\ file # 0 /\ secret' = file /\ file' = file /\ up' = TRUE
          \/ /\ ~readable \/ file = 0
             /\ \/ file' = boots + 1 /\ secret' = boots + 1 /\ up' = TRUE
                \/ file' \in {0, file, boots + 1} /\ UNCHANGED <<secret, up>>
  /\ answer' = Silence
  /\ UNCHANGED <<now, record, requests, sending, tokens, history>>

\* The server stops or dies, a mail under way or not.
Down ==
  /\ up
  /\ up' = FALSE /\ record' = NoRecord /\ requests' = <<>> /\ sending' = FALSE /\ secret' = 0
  /\ answer' = Silence
  /\ served' = <<>> /\ tries' = <<>> /\ latest' = NoHistory
  /\ UNCHANGED <<now, tokens, disk>>

Tick ==
  /\ now < MaxTime
  /\ now' = now + 1
  /\ answer' = Silence
  /\ UNCHANGED <<server, disk, tokens, history>>

Init ==
  /\ now = 0
  /\ up = FALSE /\ record = NoRecord /\ requests = <<>> /\ sending = FALSE
  /\ file = 0 /\ secret = 0 /\ tokens = {}
  /\ answer = Silence
  /\ boots = 0 /\ unread = 0
  /\ served = <<>> /\ tries = <<>> /\ latest = NoHistory

RequestPIN == RefuseRequest \/ NoPinDrawn \/ \E pin \in Pins : SendPIN(pin)

Verify ==
  \/ VerifyNone \/ VerifyLocked
  \/ \E guess \in Pins : VerifyWrong(guess) \/ VerifyRight(guess)

Next == RequestPIN \/ MailAnswered \/ Verify \/ Boot \/ Down \/ Tick

Spec == Init /\ [][Next]_vars

-----------------------------------------------------------------------------
(* Properties                                                               *)

Times == 0..MaxTime

\* The variables keep their types.
TypeOK ==
  /\ now \in Times /\ up \in BOOLEAN /\ sending \in BOOLEAN
  /\ record = NoRecord \/ record \in [pin : Pins, expires : PinTTL..(MaxTime + PinTTL),
                                      attempts : 0..MaxAttempts]
  /\ requests \in Seq(Times) /\ Len(requests) <= MaxRequests
  /\ file \in 0..MaxBoots /\ secret \in 0..MaxBoots
  /\ tokens \subseteq [at : Times, key : 0..MaxBoots]

\* Any MaxRequests + 1 requests that one process serves in a row span a window.
PinsAreLimited ==
  \A i \in 1..(Len(served) - MaxRequests) : served[i + MaxRequests] - served[i] >= Window

\* However requests, guesses and mails interleave, so many guesses are compared
\* within a window: MaxAttempts for each of the PINs drawn in it and for the one
\* that was there before.
GuessesAreLimited ==
  LET most == (MaxRequests + 1) * MaxAttempts
  IN  \A i \in 1..(Len(tries) - most) : tries[i + most] - tries[i] >= Window

\* A login takes the last PIN that was drawn, within its life, before it was
\* guessed wrong too often, and only once.
LoginsAreEarned ==
  [][answer'.kind = "login" =>
       /\ answer'.pin = latest.pin
       /\ latest.logins = 0 /\ latest.wrong < MaxAttempts
       /\ now <= latest.at + PinTTL]_vars

\* The user is refused a PIN only if MaxRequests requests were served within the
\* window: being refused does not prolong the wait.  A PIN is locked only by
\* wrong guesses of that very PIN.
RefusalsAreDue ==
  [][/\ answer'.kind = "request refused" =>
          Cardinality({i \in DOMAIN served : now - served[i] < Window}) >= MaxRequests
     /\ answer'.kind = "locked" => latest.wrong = MaxAttempts]_vars

\* A restart, however it went, ends no session, as long as the secret's file
\* could be read.
SessionsSurvive ==
  up /\ unread = 0 => \A t \in tokens : now < t.at + TokenTTL => Accepted(t)
=============================================================================
