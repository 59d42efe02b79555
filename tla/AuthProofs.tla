----------------------------- MODULE AuthProofs -----------------------------
(***************************************************************************)
(* Logins are earned, sessions survive restarts, and requests and guesses   *)
(* are limited in every window, for every limit, every set of PINs and       *)
(* behaviours of every length.                                              *)
(***************************************************************************)
EXTENDS Auth, SelectionProofs, FiniteSetTheorems

\* The record of the PIN is what became of the PIN that was drawn last.
Faithful ==
  /\ now \in Nat
  /\ \/ record = NoRecord
     \/ /\ record \in [pin : Pins, expires : Nat, attempts : Nat]
        /\ latest \in [pin : Pins, at : Nat, logins : Nat, wrong : Nat]
        /\ record.pin = latest.pin
        /\ record.expires = latest.at + PinTTL
        /\ record.attempts = latest.wrong
        /\ latest.logins = 0

\* At the start there is no record.
LEMMA FaithfulInit == Init => Faithful
  BY DEF Init, Faithful

\* A guess is compared only while there is a record.
LEMMA OpenHasRecord == Faithful /\ OpenPIN => record # NoRecord
  BY DEF OpenPIN, NoRecord, None

\* Every step keeps the record faithful.
LEMMA FaithfulStep == Faithful /\ [Next]_vars => Faithful'
<1> SUFFICES ASSUME Faithful, [Next]_vars PROVE Faithful'
  OBVIOUS
<1> USE LimitsAssumption, PinsAssumption
<1>1. CASE RefuseRequest \/ NoPinDrawn \/ MailAnswered \/ VerifyLocked
  BY <1>1 DEF RefuseRequest, NoPinDrawn, MailAnswered, VerifyLocked, server, history, Faithful
<1>2. ASSUME NEW pin \in Pins, SendPIN(pin) PROVE Faithful'
  BY <1>2 DEF SendPIN, Faithful
<1>3. CASE VerifyNone \/ Down
  BY <1>3 DEF VerifyNone, Down, Faithful
<1>4. ASSUME NEW guess \in Pins, VerifyWrong(guess) PROVE Faithful'
  <2>1. /\ record' = [record EXCEPT !.attempts = @ + 1]
        /\ latest' = [latest EXCEPT !.wrong = @ + 1] /\ now' = now
    BY <1>4 DEF VerifyWrong
  <2>2. /\ record \in [pin : Pins, expires : Nat, attempts : Nat]
        /\ latest \in [pin : Pins, at : Nat, logins : Nat, wrong : Nat]
        /\ record.pin = latest.pin /\ record.expires = latest.at + PinTTL
        /\ record.attempts = latest.wrong /\ latest.logins = 0
    BY <1>4, OpenHasRecord DEF VerifyWrong, Faithful
  <2>3. /\ record' \in [pin : Pins, expires : Nat, attempts : Nat]
        /\ record'.pin = record.pin /\ record'.expires = record.expires
        /\ record'.attempts = record.attempts + 1
    BY <2>1, <2>2
  <2>4. /\ latest' \in [pin : Pins, at : Nat, logins : Nat, wrong : Nat]
        /\ latest'.pin = latest.pin /\ latest'.at = latest.at
        /\ latest'.wrong = latest.wrong + 1 /\ latest'.logins = latest.logins
    BY <2>1, <2>2
  <2> QED BY <2>1, <2>2, <2>3, <2>4 DEF Faithful
<1>5. ASSUME NEW guess \in Pins, VerifyRight(guess) PROVE Faithful'
  BY <1>5 DEF VerifyRight, Faithful
<1>6. CASE Boot
  BY <1>6 DEF Boot, history, Faithful
<1>7. CASE Tick
  BY <1>7 DEF Tick, server, history, Faithful
<1>8. CASE UNCHANGED vars
  BY <1>8 DEF vars, Faithful
<1>9. CASE RequestPIN \/ MailAnswered
  BY <1>1, <1>2, <1>9 DEF RequestPIN
<1>10. CASE Verify
  BY <1>1, <1>3, <1>4, <1>5, <1>10 DEF Verify
<1> QED BY <1>3, <1>6, <1>7, <1>8, <1>9, <1>10 DEF Next

\* What a single step answers is due to the record.
LEMMA LoginStep ==
  ASSUME Faithful, Next, answer'.kind = "login"
  PROVE  /\ answer'.pin = latest.pin
         /\ latest.logins = 0 /\ latest.wrong < MaxAttempts
         /\ now <= latest.at + PinTTL
<1> USE LimitsAssumption, PinsAssumption
<1>1. PICK guess \in Pins : VerifyRight(guess)
  <2>1. ~(\/ RefuseRequest \/ NoPinDrawn \/ MailAnswered \/ VerifyNone \/ VerifyLocked)
    BY DEF RefuseRequest, NoPinDrawn, MailAnswered, VerifyNone, VerifyLocked, Say, Silence
  <2>2. ~(Boot \/ Down \/ Tick)
    BY DEF Boot, Down, Tick, Silence
  <2>3. ~ \E pin \in Pins : SendPIN(pin) \/ VerifyWrong(pin)
    BY DEF SendPIN, VerifyWrong, Say, Silence
  <2> QED BY <2>1, <2>2, <2>3 DEF Next, RequestPIN, Verify
<1>2. /\ record # NoRecord
      /\ record.attempts < MaxAttempts /\ ~(now > record.expires)
  BY <1>1, OpenHasRecord DEF VerifyRight, OpenPIN, Expired
<1>3. answer'.pin = record.pin
  BY <1>1 DEF VerifyRight
<1> QED BY <1>2, <1>3 DEF Faithful

\* A login takes the PIN drawn last, alive, not guessed wrong too often, and only
\* once, however requests, guesses and restarts interleave.
THEOREM LoginsAlwaysEarned == Spec => LoginsAreEarned
<1>1. Faithful /\ [Next]_vars =>
        [answer'.kind = "login" =>
           /\ answer'.pin = latest.pin
           /\ latest.logins = 0 /\ latest.wrong < MaxAttempts
           /\ now <= latest.at + PinTTL]_vars
  BY LoginStep
<1> QED BY <1>1, FaithfulInit, FaithfulStep, PTL DEF Spec, LoginsAreEarned

-----------------------------------------------------------------------------

\* As long as the file was always read, every token is signed with what is in it,
\* and the process that runs has read that.
Signed ==
  /\ unread \in Nat /\ boots \in Nat
  /\ unread = 0 =>
       /\ \A t \in tokens : t.key = file /\ file # 0
       /\ up => secret = file /\ file # 0

\* No token and no process at the start.
LEMMA SignedInit == Init => Signed
  BY DEF Init, Signed

\* A start that reads the file changes nothing once tokens were issued.
LEMMA SignedBoot == Signed /\ Boot => Signed'
<1> SUFFICES ASSUME Signed, Boot PROVE Signed'
  OBVIOUS
<1>1. PICK readable \in BOOLEAN :
        /\ IF readable THEN unread' = unread ELSE unread < MaxUnread /\ unread' = unread + 1
        /\ \/ readable /\ file # 0 /\ secret' = file /\ file' = file /\ up' = TRUE
           \/ /\ ~readable \/ file = 0
              /\ \/ file' = boots + 1 /\ secret' = boots + 1 /\ up' = TRUE
                 \/ file' \in {0, file, boots + 1} /\ UNCHANGED <<secret, up>>
  BY DEF Boot
<1>2. ~up /\ boots' = boots + 1 /\ tokens' = tokens
  BY DEF Boot
<1>3. CASE ~readable
  BY <1>1, <1>2, <1>3 DEF Signed
<1>4. CASE readable /\ file # 0
  BY <1>1, <1>2, <1>4 DEF Signed
<1>5. CASE readable /\ file = 0
  BY <1>1, <1>2, <1>5 DEF Signed
<1> QED BY <1>3, <1>4, <1>5

\* Every step keeps the tokens signed with the secret in the file.
LEMMA SignedStep == Signed /\ [Next]_vars => Signed'
<1> SUFFICES ASSUME Signed, [Next]_vars PROVE Signed'
  OBVIOUS
<1>1. CASE RefuseRequest \/ NoPinDrawn \/ MailAnswered
  <2>1. UNCHANGED <<up, secret, tokens, file, boots, unread>>
    BY <1>1 DEF RefuseRequest, NoPinDrawn, MailAnswered, disk
  <2> QED BY <2>1 DEF Signed
<1>8. ASSUME NEW pin \in Pins, SendPIN(pin) PROVE Signed'
  BY <1>8 DEF SendPIN, disk, Signed
<1>2. CASE VerifyNone \/ VerifyLocked
  BY <1>2 DEF VerifyNone, VerifyLocked, server, disk, Signed
<1>3. ASSUME NEW guess \in Pins, VerifyWrong(guess) PROVE Signed'
  BY <1>3 DEF VerifyWrong, disk, Signed
<1>4. ASSUME NEW guess \in Pins, VerifyRight(guess) PROVE Signed'
  BY <1>4 DEF VerifyRight, OpenPIN, Enter, disk, Signed
<1>5. CASE Boot
  BY <1>5, SignedBoot
<1>6. CASE Down \/ Tick
  BY <1>6 DEF Down, Tick, server, disk, Signed
<1>7. CASE UNCHANGED vars
  BY <1>7 DEF vars, Signed
<1> QED BY <1>1, <1>2, <1>3, <1>4, <1>5, <1>6, <1>7, <1>8 DEF Next, RequestPIN, Verify

\* A restart, however it went, ends no session, as long as the secret could be read.
THEOREM SessionsAlwaysSurvive == Spec => []SessionsSurvive
<1>1. Signed => SessionsSurvive
  BY DEF Signed, SessionsSurvive, Accepted
<1> QED BY <1>1, SignedInit, SignedStep, PTL DEF Spec

-----------------------------------------------------------------------------

\* The types, with a count of the starts, whose numbers the secrets are.
Typed == TypeOK /\ boots \in 0..MaxBoots

\* Of no requests there are not too many.
LEMMA Nothing == <<>> \in Seq(Times) /\ Len(<<>>) = 0 /\ 0 <= MaxRequests
<1>1. <<>> \in Seq(Times)
  OBVIOUS
<1>2. Len(<<>>) = 0
  OBVIOUS
<1> QED BY <1>1, <1>2, LimitsAssumption

\* Nothing is there at the start.
LEMMA TypedInit == Init => Typed
<1> SUFFICES ASSUME Init PROVE Typed
  OBVIOUS
<1>1. requests = <<>>
  BY DEF Init
<1>2. requests \in Seq(Times) /\ Len(requests) <= MaxRequests
  BY <1>1, Nothing
<1>3. up \in BOOLEAN /\ sending \in BOOLEAN /\ record = NoRecord /\ tokens = {}
  BY DEF Init
<1>4. now \in Times /\ file \in 0..MaxBoots /\ secret \in 0..MaxBoots /\ boots \in 0..MaxBoots
  BY BoundsAssumption DEF Init, Times
<1> QED BY <1>2, <1>3, <1>4 DEF Typed, TypeOK

\* What still counts are requests, and not more than there were.
LEMMA KeptTyped ==
  ASSUME NEW S, requests \in Seq(S)
  PROVE  Kept \in Seq(S) /\ Len(Kept) \in 0..Len(requests)
  BY SelectedTyped DEF Kept

\* RequestPIN keeps the types: a request is added only below the limit.
LEMMA TypedRequest ==
  ASSUME Typed, RequestPIN
  PROVE  Typed'
<1> USE LimitsAssumption, BoundsAssumption
<1>1. /\ now \in Times /\ requests \in Seq(Times) /\ Len(requests) <= MaxRequests
  BY DEF Typed, TypeOK
<1>2. Kept \in Seq(Times) /\ Len(Kept) \in 0..Len(requests) /\ Len(requests) \in Nat
  BY <1>1, KeptTyped
<1>3. Append(Kept, now) \in Seq(Times) /\ Len(Append(Kept, now)) = Len(Kept) + 1
  <2> DEFINE k == Kept
  <2>1. k \in Seq(Times)
    BY <1>2
  <2> HIDE DEF k
  <2>2. Append(k, now) \in Seq(Times) /\ Len(Append(k, now)) = Len(k) + 1
    BY <1>1, <2>1
  <2> QED BY <2>2 DEF k
<1>4. requests' \in Seq(Times) /\ Len(requests') <= MaxRequests
  <2>1. CASE requests' = Kept
    BY <1>1, <1>2, <2>1
  <2>2. CASE requests' = Append(Kept, now) /\ Len(Kept) < MaxRequests
    BY <1>2, <1>3, <2>2
  <2> QED BY <2>1, <2>2 DEF RequestPIN, RefuseRequest, NoPinDrawn, SendPIN
<1>5. UNCHANGED <<now, up, file, secret, tokens, boots>> /\ sending' \in BOOLEAN
  BY DEF RequestPIN, RefuseRequest, NoPinDrawn, SendPIN, disk, Typed, TypeOK
<1>6. \/ record' = record
      \/ \E pin \in Pins : record' = [pin |-> pin, expires |-> now + PinTTL, attempts |-> 0]
  BY DEF RequestPIN, RefuseRequest, NoPinDrawn, SendPIN
<1>7. \/ record' = NoRecord
      \/ record' \in [pin : Pins, expires : PinTTL..(MaxTime + PinTTL), attempts : 0..MaxAttempts]
  <2>1. CASE record' = record
    BY <2>1 DEF Typed, TypeOK
  <2>2. now + PinTTL \in PinTTL..(MaxTime + PinTTL) /\ 0 \in 0..MaxAttempts
    BY <1>1 DEF Times
  <2> QED BY <1>6, <2>1, <2>2
<1> QED BY <1>4, <1>5, <1>7 DEF Typed, TypeOK

\* Verify keeps the types: an attempt is counted only below the limit.
LEMMA TypedVerify ==
  ASSUME Typed, Verify
  PROVE  Typed'
<1> USE LimitsAssumption, BoundsAssumption, PinsAssumption
<1>1. UNCHANGED <<now, up, file, secret, boots, requests, sending>>
  BY DEF Verify, VerifyNone, VerifyLocked, VerifyWrong, VerifyRight, server, disk
<1>2. tokens' \subseteq [at : Times, key : 0..MaxBoots]
  BY DEF Verify, VerifyNone, VerifyLocked, VerifyWrong, VerifyRight, Typed, TypeOK
<1> DEFINE Records == [pin : Pins, expires : PinTTL..(MaxTime + PinTTL), attempts : 0..MaxAttempts]
<1>3. record' = NoRecord \/ record' \in Records
  <2>1. CASE record' = record \/ record' = NoRecord
    BY <2>1 DEF Typed, TypeOK
  <2>2. ASSUME NEW guess \in Pins, VerifyWrong(guess) PROVE record' \in Records
    <3>1. record.pin # None /\ record.attempts < MaxAttempts
          /\ record' = [record EXCEPT !.attempts = @ + 1]
      BY <2>2 DEF VerifyWrong, OpenPIN
    <3>2. record \in Records
      BY <3>1 DEF Typed, TypeOK, NoRecord
    <3>3. record.attempts + 1 \in 0..MaxAttempts
      BY <3>1, <3>2
    <3> QED BY <3>1, <3>2, <3>3
  <2> QED BY <2>1, <2>2 DEF Verify, VerifyNone, VerifyLocked, VerifyRight, server
<1> QED BY <1>1, <1>2, <1>3 DEF Typed, TypeOK

\* Every step keeps the types.
LEMMA TypedStep == Typed /\ [Next]_vars => Typed'
<1> SUFFICES ASSUME Typed, [Next]_vars PROVE Typed'
  OBVIOUS
<1> USE LimitsAssumption, BoundsAssumption
<1>1. CASE RequestPIN
  BY <1>1, TypedRequest
<1>2. CASE Verify
  BY <1>2, TypedVerify
<1>3. CASE MailAnswered
  BY <1>3 DEF MailAnswered, disk, Typed, TypeOK
<1>4. CASE Boot
  <2>1. boots + 1 \in 0..MaxBoots /\ boots' = boots + 1
    BY <1>4 DEF Boot, Typed, TypeOK
  <2>2. UNCHANGED <<now, record, requests, sending, tokens>>
    BY <1>4 DEF Boot
  <2>3. file' \in {0, file, boots + 1} /\ secret' \in {secret, file, boots + 1} /\ up' \in {up, TRUE}
    BY <1>4 DEF Boot
  <2>4. file' \in 0..MaxBoots /\ secret' \in 0..MaxBoots
    BY <2>1, <2>3 DEF Typed, TypeOK
  <2>5. up' \in BOOLEAN
    BY <2>3 DEF Typed, TypeOK
  <2> QED BY <2>1, <2>2, <2>4, <2>5 DEF Typed, TypeOK
<1>5. CASE Down
  <2>1. /\ requests' = <<>> /\ record' = NoRecord /\ up' = FALSE /\ sending' = FALSE
        /\ secret' = 0 /\ UNCHANGED <<now, tokens, file, boots>>
    BY <1>5 DEF Down, disk
  <2>2. requests' \in Seq(Times) /\ Len(requests') <= MaxRequests
    BY <2>1, Nothing
  <2>3. up' \in BOOLEAN /\ sending' \in BOOLEAN
    BY <2>1
  <2>4. 0 \in 0..MaxBoots
    BY BoundsAssumption
  <2> QED BY <2>1, <2>2, <2>3, <2>4 DEF Typed, TypeOK
<1>6. CASE Tick
  BY <1>6 DEF Tick, server, disk, Typed, TypeOK, Times
<1>7. CASE UNCHANGED vars
  BY <1>7 DEF vars, Typed, TypeOK
<1> QED BY <1>1, <1>2, <1>3, <1>4, <1>5, <1>6, <1>7 DEF Next

\* The variables keep their types.
THEOREM TypeCorrect == Spec => []TypeOK
<1>1. Typed => TypeOK
  BY DEF Typed
<1> QED BY <1>1, TypedInit, TypedStep, PTL DEF Spec

-----------------------------------------------------------------------------

\* What was served is in the order of time; the requests in memory are the last of it,
\* and what has been dropped from them is out of the window.
Counted ==
  /\ now \in Nat
  /\ served \in Seq(Nat) /\ requests \in Seq(Nat)
  /\ \A i \in 1..Len(served) : served[i] <= now
  /\ \A i, j \in 1..Len(served) : i <= j => served[i] <= served[j]
  /\ Len(requests) <= Len(served)
  /\ \A j \in 1..Len(requests) : requests[j] = served[Len(served) - Len(requests) + j]
  /\ \A i \in 1..Len(served) : i <= Len(served) - Len(requests) => now - served[i] >= Window

\* The requests that RequestPIN keeps are those within the window.
LEMMA KeptWithin ==
  ASSUME Counted
  PROVE  LET k == Len(served) - Len(Kept)
         IN  /\ Kept \in Seq(Nat) /\ Len(Kept) \in 0..Len(requests) /\ k \in Nat
             /\ \A j \in 1..Len(Kept) : Kept[j] = served[k + j]
             /\ \A i \in 1..Len(served) : now - served[i] < Window <=> i > k
<1> DEFINE I == {i \in DOMAIN requests : now - requests[i] < Window}
           m == Len(served) - Len(requests)
<1>1. /\ now \in Nat /\ Window \in Nat /\ served \in Seq(Nat) /\ requests \in Seq(Nat)
      /\ Len(served) \in Nat /\ Len(requests) \in Nat /\ m \in Nat
      /\ DOMAIN requests = 1..Len(requests)
  BY LimitsAssumption DEF Counted
<1>2. \A j \in 1..Len(requests) :
        /\ m + j \in 1..Len(served) /\ requests[j] = served[m + j] /\ served[m + j] \in Nat
  BY <1>1 DEF Counted
<1>3. \A i, j \in 1..Len(requests) : i <= j => requests[i] <= requests[j]
  <2>1. ASSUME NEW i \in 1..Len(requests), NEW j \in 1..Len(requests), i <= j
        PROVE  requests[i] <= requests[j]
    <3>1. m + i <= m + j
      BY <1>1, <2>1
    <3> HIDE DEF m
    <3> QED BY <1>2, <3>1 DEF Counted
  <2> QED BY <2>1
<1>4. \A i, j \in 1..Len(requests) : i \in I /\ i <= j => j \in I
  BY <1>1, <1>3
<1>5. Kept = Selected(requests, I)
  BY DEF Kept
<1> DEFINE n == Len(requests) - Len(Kept)
<1> HIDE DEF I
<1>6. /\ \A j \in 1..Len(Kept) : Kept[j] = requests[n + j]
      /\ \A i \in 1..Len(requests) : i \in I <=> i > n
  BY <1>1, <1>4, <1>5, SelectedEnd, ZenonT(40)
<1>7. Kept \in Seq(Nat) /\ Len(Kept) \in 0..Len(requests)
  BY <1>1, KeptTyped
<1> DEFINE k == Len(served) - Len(Kept)
<1>8. k \in Nat /\ n \in Nat /\ k = m + n /\ Len(Kept) \in Nat
  BY <1>1, <1>7
<1>9. ASSUME NEW j \in 1..Len(Kept) PROVE Kept[j] = served[k + j]
  <2>1. n + j \in 1..Len(requests) /\ m + (n + j) = k + j
    BY <1>1, <1>8
  <2> QED BY <1>2, <1>6, <2>1
<1>10. ASSUME NEW i \in 1..Len(served) PROVE now - served[i] < Window <=> i > k
  <2>1. served[i] \in Nat
    BY <1>1
  <2>2. CASE i <= m
    <3>1. now - served[i] >= Window /\ ~(i > k)
      BY <1>1, <1>8, <2>2 DEF Counted
    <3> QED BY <1>1, <2>1, <3>1
  <2>3. CASE i > m
    <3>1. i - m \in 1..Len(requests) /\ m + (i - m) = i
      BY <1>1, <2>3
    <3>2. requests[i - m] = served[i]
      BY <1>2, <3>1
    <3>3. i - m \in I <=> now - served[i] < Window
      BY <1>1, <3>1, <3>2 DEF I
    <3>4. i - m > n <=> i > k
      BY <1>1, <1>8
    <3> QED BY <1>6, <3>1, <3>3, <3>4
  <2> QED BY <1>1, <2>2, <2>3
<1> QED BY <1>7, <1>8, <1>9, <1>10

\* A request that is refused leaves what counts.
LEMMA CountedRefused ==
  ASSUME Counted, requests' = Kept, UNCHANGED <<now, served>>
  PROVE  Counted'
<1>1. /\ served \in Seq(Nat) /\ Len(served) \in Nat /\ now \in Nat
      /\ Window \in Nat
  BY LimitsAssumption DEF Counted
<1>2. /\ Kept \in Seq(Nat) /\ Len(Kept) \in Nat /\ Len(Kept) <= Len(served)
      /\ \A j \in 1..Len(Kept) : Kept[j] = served[Len(served) - Len(Kept) + j]
      /\ \A i \in 1..Len(served) : i <= Len(served) - Len(Kept) => now - served[i] >= Window
  <2>1. \A i \in 1..Len(served) : served[i] \in Nat
    BY <1>1
  <2> QED BY <1>1, <2>1, KeptWithin
<1> QED BY <1>1, <1>2 DEF Counted

\* One more element of a sequence.
LEMMA OneMore ==
  ASSUME NEW S, NEW s \in Seq(S), NEW e \in S
  PROVE  /\ Append(s, e) \in Seq(S) /\ Len(Append(s, e)) = Len(s) + 1 /\ Len(s) \in Nat
         /\ Append(s, e)[Len(s) + 1] = e
         /\ \A i \in 1..Len(s) : Append(s, e)[i] = s[i]
         /\ \A i \in 1..Len(Append(s, e)) : i = Len(s) + 1 \/ i \in 1..Len(s)
<1>1. /\ Append(s, e) \in Seq(S) /\ Len(Append(s, e)) = Len(s) + 1 /\ Len(s) \in Nat
  OBVIOUS
<1>2. /\ Append(s, e)[Len(s) + 1] = e
      /\ \A i \in 1..Len(s) : Append(s, e)[i] = s[i]
  OBVIOUS
<1>3. \A i \in 1..Len(Append(s, e)) : i = Len(s) + 1 \/ i \in 1..Len(s)
  BY <1>1
<1> QED BY <1>1, <1>2, <1>3

\* A request that is served counts, and keeps to the limit: the one that is MaxRequests
\* before it is out of the window.
LEMMA CountedServed ==
  ASSUME Counted, PinsAreLimited, Len(Kept) < MaxRequests,
         requests' = Append(Kept, now), served' = Append(served, now), now' = now
  PROVE  Counted' /\ PinsAreLimited'
<1> DEFINE L == Len(served)
           K == Len(Kept)
<1>1. /\ served \in Seq(Nat) /\ now \in Nat /\ Window \in Nat /\ MaxRequests \in Nat \ {0}
      /\ \A i \in 1..L : served[i] <= now /\ served[i] \in Nat
      /\ \A i, j \in 1..L : i <= j => served[i] <= served[j]
  BY LimitsAssumption DEF Counted
<1>2. /\ Kept \in Seq(Nat) /\ K \in Nat /\ L \in Nat /\ K <= L /\ K < MaxRequests
      /\ \A j \in 1..K : Kept[j] = served[L - K + j]
      /\ \A i \in 1..L : now - served[i] < Window <=> i > L - K
  BY <1>1, KeptWithin
<1>3. /\ served' \in Seq(Nat) /\ Len(served') = L + 1
      /\ served'[L + 1] = now /\ \A i \in 1..L : served'[i] = served[i]
      /\ \A i \in 1..Len(served') : i = L + 1 \/ i \in 1..L
  BY <1>1, OneMore
<1>4. /\ requests' \in Seq(Nat) /\ Len(requests') = K + 1
      /\ requests'[K + 1] = now /\ \A i \in 1..K : requests'[i] = Kept[i]
      /\ \A i \in 1..Len(requests') : i = K + 1 \/ i \in 1..K
  <2> DEFINE k == Kept
  <2>1. k \in Seq(Nat) /\ requests' = Append(k, now)
    BY <1>2
  <2> HIDE DEF k
  <2>2. /\ requests' \in Seq(Nat) /\ Len(requests') = Len(k) + 1
        /\ requests'[Len(k) + 1] = now /\ \A i \in 1..Len(k) : requests'[i] = k[i]
        /\ \A i \in 1..Len(requests') : i = Len(k) + 1 \/ i \in 1..Len(k)
    BY <1>1, <2>1, OneMore
  <2> QED BY <2>2 DEF k
<1> HIDE DEF L, K
<1>5. Counted'
  <2>1. \A i \in 1..Len(served') : served'[i] <= now
    BY <1>1, <1>3
  <2>2. \A i, j \in 1..Len(served') : i <= j => served'[i] <= served'[j]
    <3>1. ASSUME NEW i \in 1..Len(served'), NEW j \in 1..Len(served'), i <= j
          PROVE  served'[i] <= served'[j]
      <4>1. CASE j = L + 1
        BY <1>1, <1>3, <4>1
      <4>2. CASE j \in 1..L
        <5>1. i \in 1..L
          BY <1>2, <3>1, <4>2
        <5> QED BY <1>1, <1>3, <3>1, <4>2, <5>1
      <4> QED BY <1>3, <4>1, <4>2
    <3> QED BY <3>1
  <2>3. Len(served') - Len(requests') = L - K /\ Len(requests') <= Len(served')
    BY <1>2, <1>3, <1>4
  <2>4. ASSUME NEW j \in 1..Len(requests') PROVE requests'[j] = served'[L - K + j]
    <3>1. CASE j = K + 1
      <4>1. L - K + j = L + 1
        BY <1>2, <3>1
      <4> QED BY <1>3, <1>4, <3>1, <4>1
    <3>2. CASE j \in 1..K
      <4>1. L - K + j \in 1..L
        BY <1>2, <3>2
      <4> QED BY <1>2, <1>3, <1>4, <3>2, <4>1
    <3> QED BY <1>4, <3>1, <3>2
  <2>5. ASSUME NEW i \in 1..Len(served'), i <= L - K PROVE now - served'[i] >= Window
    <3>1. i \in 1..L /\ ~(i > L - K)
      BY <1>2, <2>5
    <3>2. served'[i] = served[i] /\ served[i] \in Nat /\ ~(now - served[i] < Window)
      BY <1>1, <1>2, <1>3, <3>1
    <3> QED BY <1>1, <3>2
  <2> QED BY <1>1, <1>3, <1>4, <2>1, <2>2, <2>3, <2>4, <2>5 DEF Counted
<1>6. PinsAreLimited'
  <2>1. ASSUME NEW i \in 1..(Len(served') - MaxRequests)
        PROVE  served'[i + MaxRequests] - served'[i] >= Window
    <3>1. i \in 1..L /\ served'[i] = served[i]
      BY <1>1, <1>2, <1>3, <2>1
    <3>2. CASE i + MaxRequests = L + 1
      <4>1. ~(i > L - K)
        BY <1>1, <1>2, <3>1, <3>2
      <4>2. served'[i + MaxRequests] = now /\ ~(now - served[i] < Window) /\ served[i] \in Nat
        BY <1>1, <1>2, <1>3, <3>1, <3>2, <4>1
      <4> QED BY <1>1, <3>1, <4>2, SMTT(20)
    <3>3. CASE i + MaxRequests # L + 1
      <4>1. i + MaxRequests \in 1..L /\ i \in 1..(L - MaxRequests)
        BY <1>1, <1>2, <1>3, <2>1, <3>1, <3>3
      <4>2. served[i + MaxRequests] - served[i] >= Window
        BY <4>1 DEF PinsAreLimited, L
      <4> QED BY <1>3, <3>1, <4>1, <4>2
    <3> QED BY <3>2, <3>3
  <2>2. MaxRequests' = MaxRequests /\ Window' = Window
    OBVIOUS
  <2> QED BY <2>1 DEF PinsAreLimited
<1> QED BY <1>5, <1>6

\* Nothing is served at the start, or anew.
LEMMA CountedNothing ==
  /\ now \in Nat /\ requests = <<>> /\ served = <<>> => Counted /\ PinsAreLimited
  /\ (now \in Nat /\ requests = <<>> /\ served = <<>>)' => (Counted /\ PinsAreLimited)'
<1>1. ASSUME now \in Nat, requests = <<>>, served = <<>> PROVE Counted /\ PinsAreLimited
  <2>1. requests \in Seq(Nat) /\ served \in Seq(Nat) /\ Len(served) = 0 /\ Len(requests) = 0
    BY <1>1
  <2> QED BY <1>1, <2>1, LimitsAssumption DEF Counted, PinsAreLimited
<1>2. ASSUME (now \in Nat)', (requests = <<>>)', (served = <<>>)' PROVE (Counted /\ PinsAreLimited)'
  <2>1. /\ requests' \in Seq(Nat) /\ served' \in Seq(Nat)
        /\ Len(served') = 0 /\ Len(requests') = 0
    BY <1>2
  <2> QED BY <1>2, <2>1, LimitsAssumption DEF Counted, PinsAreLimited
<1> QED BY <1>1, <1>2

\* Every step counts right.
LEMMA CountedStep == Counted /\ PinsAreLimited /\ [Next]_vars => Counted' /\ PinsAreLimited'
<1> SUFFICES ASSUME Counted, PinsAreLimited, [Next]_vars PROVE Counted' /\ PinsAreLimited'
  OBVIOUS
<1>1. CASE UNCHANGED <<now, requests, served>>
  BY <1>1 DEF Counted, PinsAreLimited
<1>2. CASE RefuseRequest
  <2>1. requests' = Kept /\ UNCHANGED <<now, served>>
    BY <1>2 DEF RefuseRequest, history
  <2> QED BY <2>1, CountedRefused DEF PinsAreLimited
<1>3. CASE NoPinDrawn \/ \E pin \in Pins : SendPIN(pin)
  <2>1. /\ Len(Kept) < MaxRequests /\ requests' = Append(Kept, now)
        /\ served' = Append(served, now) /\ now' = now
    BY <1>3 DEF NoPinDrawn, SendPIN
  <2> QED BY <2>1, CountedServed
<1>4. CASE Down
  BY <1>4, CountedNothing DEF Down, Counted
<1>5. CASE Tick
  <2>1. now' = now + 1 /\ UNCHANGED <<requests, served>> /\ now \in Nat /\ Window \in Nat
        /\ served \in Seq(Nat)
    BY <1>5, LimitsAssumption DEF Tick, server, history, Counted
  <2>2. \A i \in 1..Len(served) : served[i] \in Nat
    BY <2>1
  <2>3. PinsAreLimited'
    BY <2>1 DEF PinsAreLimited
  <2>4. \A i \in 1..Len(served) : served[i] <= now'
    BY <2>1, <2>2 DEF Counted
  <2>5. ASSUME NEW i \in 1..Len(served), i <= Len(served) - Len(requests)
        PROVE  now' - served[i] >= Window
    <3> DEFINE then == served[i]
    <3>1. now - then >= Window
      BY <2>5 DEF Counted
    <3>2. then \in Nat /\ now \in Nat /\ Window \in Nat /\ now' = now + 1
      BY <2>1, <2>2
    <3> HIDE DEF then
    <3>3. now' - then >= Window
      BY <3>1, <3>2
    <3> QED BY <3>3 DEF then
  <2>6. Counted'
    BY <2>1, <2>4, <2>5 DEF Counted
  <2> QED BY <2>3, <2>6
<1>6. CASE MailAnswered \/ Boot \/ UNCHANGED vars
  BY <1>1, <1>6 DEF MailAnswered, Boot, history, vars
<1>7. CASE Verify
  BY <1>1, <1>7 DEF Verify, VerifyNone, VerifyLocked, VerifyWrong, VerifyRight, server, history
<1> QED BY <1>2, <1>3, <1>4, <1>5, <1>6, <1>7 DEF Next, RequestPIN

\* Whatever is refused, fails or is dropped from memory in between: any MaxRequests + 1
\* requests that one process serves in a row span a window.
THEOREM PinsAlwaysLimited == Spec => []PinsAreLimited
<1>1. Init => Counted /\ PinsAreLimited
  <2>1. Init => now \in Nat /\ requests = <<>> /\ served = <<>>
    BY DEF Init
  <2> QED BY <2>1, CountedNothing
<1> QED BY <1>1, CountedStep, PTL DEF Spec

-----------------------------------------------------------------------------

\* How many guesses the PIN in memory has had; without one there is none to guess.
Used == IF record.pin = None THEN MaxAttempts ELSE record.attempts

\* tag says of every guess how many requests had been served before it: that many are
\* not later than the guess and the others not earlier.  Between a guess and the one
\* MaxAttempts after it a request was served, and the guesses since the last request
\* are among those the PIN in memory has had.
Tagging(tag) ==
  /\ tag \in [1..Len(tries) -> 0..Len(served)]
  /\ \A i \in 1..Len(tries), d \in 1..Len(served) :
       IF d <= tag[i] THEN served[d] <= tries[i] ELSE tries[i] <= served[d]
  /\ \A i \in 1..(Len(tries) - MaxAttempts) : tag[i + MaxAttempts] > tag[i]
  /\ \A i \in 1..Len(tries) : tag[i] = Len(served) => Len(tries) - i < Used

\* The guesses of the process can be told by the requests before them.
Guessed ==
  /\ tries \in Seq(Nat)
  /\ \A i \in 1..Len(tries) : tries[i] <= now
  /\ \E tag \in [1..Len(tries) -> 0..Len(served)] : Tagging(tag)

\* A record in memory has had at most MaxAttempts guesses.
LEMMA UsedTyped ==
  /\ Typed => Used \in Nat /\ Used <= MaxAttempts
  /\ Typed' => Used' \in Nat /\ Used' <= MaxAttempts
<1>1. Typed => Used \in Nat /\ Used <= MaxAttempts
  BY LimitsAssumption, PinsAssumption DEF Typed, TypeOK, Used, NoRecord, None
<1>2. Typed' => Used' \in Nat /\ Used' <= MaxAttempts
  BY LimitsAssumption, PinsAssumption DEF Typed, TypeOK, Used, NoRecord, None
<1> QED BY <1>1, <1>2

\* A step without a guess or a served request, after which the PIN in memory has had
\* no fewer guesses.
LEMMA GuessedKept ==
  ASSUME Guessed, now \in Nat, now' \in Nat, now' >= now, UNCHANGED <<tries, served>>,
         Used \in Nat, Used' \in Nat, Used' >= Used
  PROVE  Guessed'
<1>1. PICK tag \in [1..Len(tries) -> 0..Len(served)] : Tagging(tag)
  BY DEF Guessed
<1>2. tries \in Seq(Nat) /\ Len(tries) \in Nat /\ \A i \in 1..Len(tries) : tries[i] <= now /\ tries[i] \in Nat
  BY DEF Guessed
<1>3. \A i \in 1..Len(tries) : tries'[i] <= now'
  BY <1>2
<1>4. \A i \in 1..Len(tries) : tag[i] = Len(served) => Len(tries) - i < Used'
  BY <1>1, <1>2 DEF Tagging
<1>5. Tagging(tag)'
  BY <1>1, <1>4 DEF Tagging
<1> QED BY <1>1, <1>2, <1>3, <1>5 DEF Guessed

\* A request is served: no guess comes after it yet.
LEMMA GuessedServed ==
  ASSUME Guessed, Counted, now' = now, tries' = tries, served' = Append(served, now)
  PROVE  Guessed'
<1> DEFINE L == Len(served)
           M == Len(tries)
<1>1. PICK tag \in [1..M -> 0..L] : Tagging(tag)
  BY DEF Guessed
<1>2. /\ tries \in Seq(Nat) /\ M \in Nat /\ now \in Nat
      /\ \A i \in 1..M : tries[i] <= now /\ tries[i] \in Nat
  <2>1. tries \in Seq(Nat) /\ \A i \in 1..M : tries[i] <= now
    BY DEF Guessed
  <2> QED BY <2>1 DEF Counted
<1>3. /\ served' \in Seq(Nat) /\ Len(served') = L + 1 /\ L \in Nat
      /\ served'[L + 1] = now /\ \A i \in 1..L : served'[i] = served[i]
      /\ \A i \in 1..Len(served') : i = L + 1 \/ i \in 1..L
  BY OneMore DEF Counted
<1>4. /\ \A i \in 1..M, d \in 1..L : IF d <= tag[i] THEN served[d] <= tries[i]
                                                    ELSE tries[i] <= served[d]
      /\ \A i \in 1..(M - MaxAttempts) : tag[i + MaxAttempts] > tag[i]
  BY <1>1 DEF Tagging
<1> HIDE DEF L, M
<1>5. \A i \in 1..M : tag[i] \in 0..L /\ tag[i] # L + 1 /\ ~(L + 1 <= tag[i])
  BY <1>1, <1>3
<1>6. tag \in [1..M -> 0..(L + 1)]
  BY <1>1, <1>3
<1>7. \A i \in 1..M, d \in 1..Len(served') : IF d <= tag[i] THEN served'[d] <= tries[i]
                                                            ELSE tries[i] <= served'[d]
  <2>1. ASSUME NEW i \in 1..M, NEW d \in 1..Len(served')
        PROVE  IF d <= tag[i] THEN served'[d] <= tries[i] ELSE tries[i] <= served'[d]
    <3>1. CASE d = L + 1
      BY <1>2, <1>3, <1>5, <3>1
    <3>2. CASE d \in 1..L
      BY <1>3, <1>4, <3>2
    <3> QED BY <1>3, <3>1, <3>2
  <2> QED BY <2>1
<1>8. Len(tries') = M /\ M' = M
  BY DEF M
<1>9. Tagging(tag)' /\ tag \in [1..Len(tries') -> 0..Len(served')]
  BY <1>3, <1>4, <1>5, <1>6, <1>7, <1>8 DEF Tagging
<1> QED BY <1>2, <1>8, <1>9 DEF Guessed

\* A guess is compared: MaxAttempts guesses ago, the PIN in memory had not been sent.
LEMMA GuessedOnce ==
  ASSUME Guessed, Counted, now' = now, served' = served, tries' = Append(tries, now),
         Used \in Nat, Used' \in Nat, Used < MaxAttempts, Used' > Used
  PROVE  Guessed'
<1> DEFINE L == Len(served)
           M == Len(tries)
<1>1. PICK tag \in [1..M -> 0..L] : Tagging(tag)
  BY DEF Guessed
<1>2. /\ tries \in Seq(Nat) /\ M \in Nat /\ now \in Nat /\ L \in Nat
      /\ \A i \in 1..M : tries[i] <= now
      /\ \A d \in 1..L : served[d] <= now
  BY DEF Guessed, Counted
<1>3. /\ tries' \in Seq(Nat) /\ Len(tries') = M + 1
      /\ tries'[M + 1] = now /\ \A i \in 1..M : tries'[i] = tries[i]
      /\ \A i \in 1..Len(tries') : i = M + 1 \/ i \in 1..M
  BY <1>2, OneMore
<1>4. /\ \A i \in 1..M, d \in 1..L : IF d <= tag[i] THEN served[d] <= tries[i]
                                                    ELSE tries[i] <= served[d]
      /\ \A i \in 1..(M - MaxAttempts) : tag[i + MaxAttempts] > tag[i]
      /\ \A i \in 1..M : tag[i] = L => M - i < Used
  BY <1>1 DEF Tagging
<1>4a. PICK t : t = [i \in 1..(M + 1) |-> IF i = M + 1 THEN L ELSE tag[i]]
  OBVIOUS
<1> HIDE DEF L, M
<1>5. t[M + 1] = L /\ \A i \in 1..M : t[i] = tag[i] /\ tag[i] \in 0..L
  BY <1>1, <1>2, <1>4a
<1>6. t \in [1..(M + 1) -> 0..L]
  BY <1>1, <1>2, <1>4a
<1>7. ASSUME NEW i \in 1..Len(tries'), NEW d \in 1..L
      PROVE  IF d <= t[i] THEN served[d] <= tries'[i] ELSE tries'[i] <= served[d]
  <2>1. CASE i = M + 1
    BY <1>2, <1>3, <1>5, <2>1
  <2>2. CASE i \in 1..M
    BY <1>3, <1>4, <1>5, <2>2
  <2> QED BY <1>3, <2>1, <2>2
<1>8. ASSUME NEW i \in 1..(Len(tries') - MaxAttempts) PROVE t[i + MaxAttempts] > t[i]
  <2>1. MaxAttempts \in Nat \ {0} /\ i \in 1..M /\ i + MaxAttempts \in Nat
    BY <1>2, <1>3, LimitsAssumption
  <2>2. CASE i + MaxAttempts = M + 1
    <3>1. ~(M - i < Used)
      BY <1>2, <2>1, <2>2
    <3>2. tag[i] # L
      BY <1>4, <2>1, <3>1
    <3>3. t[i + MaxAttempts] = L /\ t[i] = tag[i] /\ tag[i] \in 0..L
      BY <1>5, <2>1, <2>2
    <3> QED BY <1>2, <3>2, <3>3
  <2>3. CASE i + MaxAttempts # M + 1
    <3>1. i \in 1..(M - MaxAttempts) /\ i + MaxAttempts \in 1..M
      BY <1>2, <1>3, <1>8, <2>1, <2>3
    <3> QED BY <1>4, <1>5, <2>1, <3>1
  <2> QED BY <2>2, <2>3
<1>9. ASSUME NEW i \in 1..Len(tries'), t[i] = L PROVE Len(tries') - i < Used'
  <2>1. CASE i = M + 1
    BY <1>2, <1>3, <2>1
  <2>2. CASE i \in 1..M
    <3>1. M - i < Used
      BY <1>4, <1>5, <1>9, <2>2
    <3> QED BY <1>2, <1>3, <2>2, <3>1
  <2> QED BY <1>3, <2>1, <2>2
<1>10. \A i \in 1..Len(tries') : tries'[i] <= now'
  BY <1>2, <1>3
<1>11. Len(served') = L
  BY DEF L
<1>12. t \in [1..Len(tries') -> 0..Len(served')] /\ served' = served
  BY <1>3, <1>6, <1>11
<1>13. Tagging(t)'
  BY <1>7, <1>8, <1>9, <1>11, <1>12 DEF Tagging
<1> QED BY <1>3, <1>10, <1>12, <1>13 DEF Guessed

\* No guess was compared at the start, or anew.
LEMMA GuessedNothing ==
  /\ tries = <<>> /\ served = <<>> => Guessed
  /\ (tries = <<>>)' /\ (served = <<>>)' => Guessed'
<1>1. ASSUME NEW s, s = <<>>
      PROVE  s \in Seq(Nat) /\ Len(s) = 0 /\ [i \in 1..0 |-> 0] \in [1..0 -> 0..0]
  BY <1>1
<1>2. MaxAttempts \in Nat \ {0}
  BY LimitsAssumption
<1>3. \A i \in 1..(0 - MaxAttempts) : FALSE
  BY <1>2
<1>4. ASSUME tries = <<>>, served = <<>> PROVE Guessed
  <2>1. Len(tries) = 0 /\ Len(served) = 0 /\ tries \in Seq(Nat)
    BY <1>1, <1>4
  <2>2. Tagging([i \in 1..0 |-> 0])
    BY <1>1, <1>3, <2>1 DEF Tagging
  <2> QED BY <1>1, <2>1, <2>2 DEF Guessed
<1>5. ASSUME (tries = <<>>)', (served = <<>>)' PROVE Guessed'
  <2>1. Len(tries') = 0 /\ Len(served') = 0 /\ tries' \in Seq(Nat)
    BY <1>1, <1>5
  <2>2. Tagging([i \in 1..0 |-> 0])'
    BY <1>1, <1>3, <2>1 DEF Tagging
  <2> QED BY <1>1, <2>1, <2>2 DEF Guessed
<1> QED BY <1>4, <1>5

\* Every step keeps the guesses apart.
LEMMA GuessedStep == Guessed /\ Typed /\ Counted /\ [Next]_vars => Guessed'
<1> SUFFICES ASSUME Guessed, Typed, Counted, [Next]_vars PROVE Guessed'
  OBVIOUS
<1>1. /\ Used \in Nat /\ Used <= MaxAttempts /\ Used' \in Nat /\ Used' <= MaxAttempts
      /\ MaxAttempts \in Nat \ {0} /\ now \in Nat
  BY UsedTyped, TypedStep, LimitsAssumption DEF Counted
<1>2. CASE UNCHANGED <<now, tries, served, record>>
  <2>1. Used' = Used
    BY <1>2 DEF Used
  <2> QED BY <1>1, <1>2, <2>1, GuessedKept
<1>3. CASE NoPinDrawn \/ \E pin \in Pins : SendPIN(pin)
  <2>1. now' = now /\ tries' = tries /\ served' = Append(served, now)
    BY <1>3 DEF NoPinDrawn, SendPIN
  <2> QED BY <2>1, GuessedServed
<1>4. CASE VerifyNone
  <2>1. UNCHANGED <<now, tries, served>> /\ record' = NoRecord
    BY <1>4 DEF VerifyNone, history
  <2>2. Used' = MaxAttempts
    BY <2>1 DEF Used, NoRecord
  <2> QED BY <1>1, <2>1, <2>2, GuessedKept
<1>5. ASSUME NEW guess \in Pins, VerifyWrong(guess) \/ VerifyRight(guess) PROVE Guessed'
  <2>1. /\ now' = now /\ served' = served /\ tries' = Append(tries, now)
        /\ record.pin # None /\ record.attempts < MaxAttempts
        /\ \/ record' = NoRecord
           \/ record' = [record EXCEPT !.attempts = @ + 1]
    BY <1>5 DEF VerifyWrong, VerifyRight, OpenPIN
  <2>2. Used = record.attempts /\ Used < MaxAttempts
    BY <2>1 DEF Used
  <2>3. Used' > Used
    <3>1. CASE record' = NoRecord
      <4>1. Used' = MaxAttempts
        BY <3>1 DEF Used, NoRecord
      <4> QED BY <1>1, <2>2, <4>1
    <3>2. CASE record' = [record EXCEPT !.attempts = @ + 1]
      <4>1. record \in [pin : Pins, expires : PinTTL..(MaxTime + PinTTL), attempts : 0..MaxAttempts]
        BY <2>1 DEF Typed, TypeOK, NoRecord
      <4>2. record'.pin = record.pin /\ record'.attempts = record.attempts + 1
        BY <3>2, <4>1
      <4>3. Used' = Used + 1
        BY <2>1, <2>2, <4>2 DEF Used
      <4> QED BY <1>1, <4>3
    <3> QED BY <2>1, <3>1, <3>2
  <2> QED BY <1>1, <2>1, <2>2, <2>3, GuessedOnce
<1>6. CASE Down
  BY <1>6, GuessedNothing DEF Down
<1>7. CASE Tick
  <2>1. now' = now + 1 /\ UNCHANGED <<tries, served, record>>
    BY <1>7 DEF Tick, server, history
  <2>2. Used' = Used
    BY <2>1 DEF Used
  <2>3. now' \in Nat /\ now' >= now
    BY <1>1, <2>1
  <2> QED BY <1>1, <2>1, <2>2, <2>3, GuessedKept
<1>8. CASE RefuseRequest \/ MailAnswered \/ VerifyLocked \/ Boot \/ UNCHANGED vars
  BY <1>2, <1>8 DEF RefuseRequest, MailAnswered, VerifyLocked, Boot, server, history, vars
<1> QED BY <1>3, <1>4, <1>5, <1>6, <1>7, <1>8 DEF Next, RequestPIN, Verify

\* A tag is a number of requests.
LEMMA TagTyped ==
  ASSUME NEW tag, Tagging(tag), served \in Seq(Nat)
  PROVE  \A m \in 1..Len(tries) : tag[m] \in Nat
<1>1. tag \in [1..Len(tries) -> 0..Len(served)] /\ Len(served) \in Nat
  BY DEF Tagging
<1> QED BY <1>1

\* The numbers of requests before the guesses grow by one with every MaxAttempts guesses.
LEMMA TagsGrow ==
  ASSUME NEW tag, Tagging(tag), NEW n \in Nat, NEW i \in 1..Len(tries),
         i + n * MaxAttempts <= Len(tries), tries \in Seq(Nat), served \in Seq(Nat)
  PROVE  tag[i + n * MaxAttempts] >= tag[i] + n
<1>1. MaxAttempts \in Nat \ {0} /\ Len(tries) \in Nat /\ Len(served) \in Nat
  BY LimitsAssumption
<1>2. \A m \in 1..Len(tries) : tag[m] \in Nat
  BY TagTyped
<1> DEFINE At(k) == i + k * MaxAttempts
           Good == {k \in 0..n : At(k) <= Len(tries) => tag[At(k)] >= tag[i] + k}
<1>3. At(0) = i
  BY <1>1
<1>4. ASSUME NEW k \in Nat \ {0}
      PROVE  At(k) = At(k - 1) + MaxAttempts /\ At(k - 1) \in Nat /\ At(k - 1) >= i
  <2> DEFINE x == (k - 1) * MaxAttempts
  <2>1. x \in Nat /\ k * MaxAttempts = x + MaxAttempts
    BY <1>1
  <2>2. At(k) = i + (x + MaxAttempts) /\ At(k - 1) = i + x
    BY <2>1
  <2> HIDE DEF x, At
  <2> QED BY <1>1, <2>1, <2>2
<1> HIDE DEF At
<1>5. 0 \in Good
  BY <1>2, <1>3
<1>6. ASSUME NEW k \in 1..n, k - 1 \in Good PROVE k \in Good
  <2>1. /\ k \in Nat \ {0}
        /\ At(k) = At(k - 1) + MaxAttempts /\ At(k - 1) \in Nat /\ At(k - 1) >= i
    <3>1. k \in Nat \ {0}
      OBVIOUS
    <3> QED BY <1>4, <3>1
  <2>2. ASSUME At(k) <= Len(tries) PROVE tag[At(k)] >= tag[i] + k
    <3>1. At(k - 1) \in 1..(Len(tries) - MaxAttempts) /\ At(k - 1) \in 1..Len(tries)
      BY <1>1, <2>1, <2>2
    <3>2. tag[At(k - 1)] >= tag[i] + (k - 1)
      BY <1>1, <1>6, <3>1
    <3>3. tag[At(k)] > tag[At(k - 1)] /\ At(k) \in 1..Len(tries)
      <4>1. tag[At(k - 1) + MaxAttempts] > tag[At(k - 1)]
        BY <3>1 DEF Tagging
      <4>2. At(k) \in 1..Len(tries)
        BY <1>1, <2>1, <2>2
      <4> QED BY <2>1, <4>1, <4>2
    <3>4. tag[At(k)] \in Nat /\ tag[At(k - 1)] \in Nat /\ tag[i] \in Nat
      BY <1>2, <3>1, <3>3
    <3> DEFINE new == tag[At(k)]
               old == tag[At(k - 1)]
               first == tag[i]
    <3>5. new > old /\ old >= first + (k - 1) /\ new \in Nat /\ old \in Nat /\ first \in Nat
      BY <3>2, <3>3, <3>4
    <3> HIDE DEF new, old, first
    <3>6. new >= first + k
      BY <2>1, <3>5
    <3> QED BY <3>6 DEF new, first
  <2> QED BY <2>2
<1> HIDE DEF Good
<1>7. n \in Good
  <2>1. \A k \in 0..n : k \in Good
    BY <1>5, <1>6, UpTo
  <2> QED BY <2>1
<1> QED BY <1>7 DEF Good, At

\* A window with more guesses would be one with more requests.
LEMMA GuessesWithin == Guessed /\ Counted /\ PinsAreLimited => GuessesAreLimited
<1> SUFFICES ASSUME Guessed, Counted, PinsAreLimited PROVE GuessesAreLimited
  OBVIOUS
<1> DEFINE most == (MaxRequests + 1) * MaxAttempts
<1>1. PICK tag \in [1..Len(tries) -> 0..Len(served)] : Tagging(tag)
  BY DEF Guessed
<1>2. /\ MaxAttempts \in Nat \ {0} /\ MaxRequests \in Nat \ {0} /\ Window \in Nat
      /\ tries \in Seq(Nat) /\ served \in Seq(Nat) /\ Len(tries) \in Nat /\ Len(served) \in Nat
  BY LimitsAssumption DEF Guessed, Counted
<1>3. MaxRequests + 1 \in Nat /\ most \in Nat
  BY <1>2
<1>4. ASSUME NEW i \in 1..(Len(tries) - most) PROVE tries[i + most] - tries[i] >= Window
  <2> HIDE DEF most
  <2>1. i \in 1..Len(tries) /\ i + most <= Len(tries) /\ i + most \in 1..Len(tries)
    BY <1>2, <1>3, <1>4
  <2>2. tag[i + most] >= tag[i] + (MaxRequests + 1)
    BY <1>1, <1>2, <1>3, <2>1, TagsGrow DEF most
  <2>3. tag[i] \in 0..Len(served) /\ tag[i + most] \in 0..Len(served)
    BY <1>1, <2>1
  <2> DEFINE d == tag[i] + 1
             e == d + MaxRequests
  <2>4. /\ d \in 1..Len(served) /\ ~(d <= tag[i])
        /\ e \in 1..Len(served) /\ e <= tag[i + most] /\ d \in 1..(Len(served) - MaxRequests)
    <3> DEFINE t == tag[i]
               u == tag[i + most]
    <3>1. u >= t + (MaxRequests + 1) /\ t \in 0..Len(served) /\ u \in 0..Len(served)
      BY <2>2, <2>3
    <3>2. d = t + 1 /\ e = t + 1 + MaxRequests
      OBVIOUS
    <3> HIDE DEF t, u, d, e
    <3>3. /\ d \in 1..Len(served) /\ ~(d <= t)
          /\ e \in 1..Len(served) /\ e <= u /\ d \in 1..(Len(served) - MaxRequests)
      BY <1>2, <3>1, <3>2
    <3> QED BY <3>3 DEF t, u
  <2> HIDE DEF d, e
  <2>5. tries[i] <= served[d] /\ served[e] <= tries[i + most]
    BY <1>1, <2>1, <2>4 DEF Tagging
  <2>6. served[e] - served[d] >= Window
    BY <2>4 DEF PinsAreLimited, e
  <2>7. tries[i] \in Nat /\ tries[i + most] \in Nat /\ served[d] \in Nat /\ served[e] \in Nat
    <3>1. \A m \in 1..Len(tries) : tries[m] \in Nat
      BY <1>2
    <3>2. \A m \in 1..Len(served) : served[m] \in Nat
      BY <1>2
    <3> QED BY <2>1, <2>4, <3>1, <3>2
  <2> DEFINE a == tries[i]
             b == served[d]
             c == served[e]
             z == tries[i + most]
  <2>8. a \in Nat /\ b \in Nat /\ c \in Nat /\ z \in Nat /\ a <= b /\ c <= z /\ c - b >= Window
    BY <2>5, <2>6, <2>7
  <2> HIDE DEF a, b, c, z
  <2>9. z - a >= Window
    BY <1>2, <2>8
  <2> QED BY <2>9 DEF a, z
<1> QED BY <1>4 DEF GuessesAreLimited

\* However requests, guesses, mails and restarts interleave, so many guesses at most are
\* compared within a window.
THEOREM GuessesAlwaysLimited == Spec => []GuessesAreLimited
<1> DEFINE IInv == Typed /\ Counted /\ PinsAreLimited /\ Guessed
<1>1. Init => IInv
  <2>1. Init => now \in Nat /\ requests = <<>> /\ served = <<>> /\ tries = <<>>
    BY DEF Init
  <2> QED BY <2>1, TypedInit, CountedNothing, GuessedNothing
<1>2. IInv /\ [Next]_vars => IInv'
  BY TypedStep, CountedStep, GuessedStep
<1>3. IInv => GuessesAreLimited
  BY GuessesWithin
<1> QED BY <1>1, <1>2, <1>3, PTL DEF Spec

-----------------------------------------------------------------------------

\* Only these steps answer so.
LEMMA RefusalSteps ==
  ASSUME Next
  PROVE  /\ answer'.kind = "request refused" => RefuseRequest
         /\ answer'.kind = "locked" => VerifyLocked
<1>1. CASE RefuseRequest
  BY <1>1 DEF RefuseRequest, Say, Silence
<1>2. CASE VerifyLocked
  BY <1>2 DEF VerifyLocked, Say, Silence
<1>3. CASE NoPinDrawn \/ MailAnswered \/ VerifyNone
  BY <1>3 DEF NoPinDrawn, MailAnswered, VerifyNone, Say, Silence
<1>4. ASSUME NEW pin \in Pins, SendPIN(pin) \/ VerifyWrong(pin) \/ VerifyRight(pin)
      PROVE  answer'.kind \in {"none", "invalid", "login"}
  BY <1>4 DEF SendPIN, VerifyWrong, VerifyRight, Say, Silence
<1>5. CASE Boot \/ Down \/ Tick
  <2>1. answer' = Silence
    BY <1>5 DEF Boot, Down, Tick
  <2> QED BY <2>1 DEF Silence
<1> QED BY <1>1, <1>2, <1>3, <1>4, <1>5 DEF Next, RequestPIN, Verify

\* What a single step refuses is refused with a reason.
LEMMA RefusalStep ==
  ASSUME Typed, Faithful, Counted, Next
  PROVE  /\ answer'.kind = "request refused" =>
              Cardinality({i \in DOMAIN served : now - served[i] < Window}) >= MaxRequests
         /\ answer'.kind = "locked" => latest.wrong = MaxAttempts
<1>1. ASSUME RefuseRequest
      PROVE  Cardinality({i \in DOMAIN served : now - served[i] < Window}) >= MaxRequests
  <2> DEFINE L == Len(served)
             k == L - Len(Kept)
             Within == {i \in DOMAIN served : now - served[i] < Window}
  <2>1. Len(Kept) >= MaxRequests /\ MaxRequests \in Nat \ {0}
    BY <1>1, LimitsAssumption DEF RefuseRequest
  <2>2. /\ k \in Nat /\ L \in Nat /\ Len(Kept) \in Nat
        /\ \A i \in 1..L : now - served[i] < Window <=> i > k
        /\ DOMAIN served = 1..L
    BY KeptWithin DEF Counted
  <2>3. Within = (k + 1)..L
    <3> HIDE DEF k, L
    <3> QED BY <2>2
  <2>4. Cardinality((k + 1)..L) = L - (k + 1) + 1
    <3>1. k + 1 \in Int /\ L \in Int /\ ~(k + 1 > L)
      BY <2>1, <2>2
    <3> HIDE DEF k, L
    <3> QED BY <3>1, FS_Interval
  <2>5. L - (k + 1) + 1 = Len(Kept)
    BY <2>2
  <2> HIDE DEF L, k
  <2>6. Cardinality(Within) >= MaxRequests
    BY <2>1, <2>3, <2>4, <2>5
  <2> QED BY <2>6
<1>2. ASSUME VerifyLocked PROVE latest.wrong = MaxAttempts
  <2>1. record.pin # None /\ ~(record.attempts < MaxAttempts)
    BY <1>2 DEF VerifyLocked, OpenPIN
  <2>2. record.attempts \in 0..MaxAttempts /\ MaxAttempts \in Nat
    BY <2>1, LimitsAssumption DEF Typed, TypeOK, NoRecord
  <2>3. record.attempts = latest.wrong
    BY <2>1 DEF Faithful, NoRecord
  <2> QED BY <2>1, <2>2, <2>3
<1> QED BY <1>1, <1>2, RefusalSteps

\* A refused request finds MaxRequests served ones within the window, a locked PIN was
\* guessed wrong MaxAttempts times.
THEOREM RefusalsAlwaysDue == Spec => RefusalsAreDue
<1> DEFINE IInv == Typed /\ Faithful /\ Counted /\ PinsAreLimited
<1>1. Init => IInv
  <2>1. Init => now \in Nat /\ requests = <<>> /\ served = <<>>
    BY DEF Init
  <2> QED BY <2>1, TypedInit, FaithfulInit, CountedNothing
<1>2. IInv /\ [Next]_vars => IInv'
  BY TypedStep, FaithfulStep, CountedStep
<1>3. IInv /\ [Next]_vars =>
        [/\ answer'.kind = "request refused" =>
              Cardinality({i \in DOMAIN served : now - served[i] < Window}) >= MaxRequests
         /\ answer'.kind = "locked" => latest.wrong = MaxAttempts]_vars
  BY RefusalStep
<1> QED BY <1>1, <1>2, <1>3, PTL DEF Spec, RefusalsAreDue
=============================================================================
