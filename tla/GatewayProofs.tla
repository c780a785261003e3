---------------------------- MODULE GatewayProofs ----------------------------
(***************************************************************************)
(* What is proved about Gateway for all limits, environments, lengths of   *)
(* windows and numbers of clients, tokens, crashes and failing writes.     *)
(***************************************************************************)
EXTENDS Gateway, TotalsProofs, TLAPS

-----------------------------------------------------------------------------
(***************************************************************************)
(* Types                                                                   *)
(***************************************************************************)
\* A window as it may be kept: at its limit at most, or just begun.
WindowOf(b, w) == w \in Window /\ (w.count <= Limit(b) \/ w.count = 1)

LimitsType ==
    /\ windows \in [Buckets -> Window]
    /\ \A b \in Buckets : windows[b].count <= Limit(b) \/ windows[b].count = 1
    /\ recent \in [Buckets -> [0..(Hour - 1) -> Nat]]

\* A bucket has a limit and a length.
LEMMA BucketType ==
    ASSUME TypeOK, NEW b \in Buckets
    PROVE  Limit(b) \in Nat /\ Length(b) \in Nat \ {0} /\ Length(b) <= Hour /\ b[1] \in BucketKinds
  <1>1. b[1] \in BucketKinds
    BY DEF Buckets, BucketKinds
  <1>2. conf.profile \in Profiles
    BY DEF TypeOK, Conf
  <1>3. Limit(b) \in Nat
    BY <1>1, <1>2, GatewayAssumption DEF Limit
  <1>4. Length(b) \in Nat \ {0} /\ Length(b) <= Hour
    BY GatewayAssumption DEF Length
  <1> QED
    BY <1>1, <1>3, <1>4

\* Requests that are counted keep every window at its limit.
LEMMA SpendType ==
    ASSUME TypeOK, NEW bs, bs \subseteq Buckets, \A b \in bs : ~Exhausted(b), Spend(bs),
           UNCHANGED conf
    PROVE  /\ windows' \in [Buckets -> Window]
           /\ \A b \in Buckets : windows'[b].count <= Limit(b)' \/ windows'[b].count = 1
  <1> SUFFICES ASSUME NEW b \in Buckets
               PROVE  /\ windows'[b] \in Window
                      /\ windows'[b].count <= Limit(b)' \/ windows'[b].count = 1
    BY DEF Spend
  <1>1. windows[b] \in Window /\ (windows[b].count <= Limit(b) \/ windows[b].count = 1)
    BY DEF TypeOK
  <1>2. Limit(b) \in Nat /\ Length(b) \in 0..Hour /\ Limit(b)' = Limit(b)
    BY BucketType, GatewayAssumption DEF Limit
  <1>3. windows'[b] = IF b \notin bs THEN windows[b]
                      ELSE IF windows[b].left = 0 THEN [count |-> 1, left |-> Length(b)]
                      ELSE [windows[b] EXCEPT !.count = @ + 1]
    BY DEF Spend
  <1>4. CASE b \notin bs
    BY <1>1, <1>2, <1>3, <1>4
  <1>5. CASE b \in bs /\ windows[b].left = 0
    BY <1>2, <1>3, <1>5 DEF Window
  <1>6. CASE b \in bs /\ windows[b].left # 0
    BY <1>1, <1>2, <1>3, <1>6, GatewayAssumption DEF Window, Exhausted
  <1> QED
    BY <1>4, <1>5, <1>6

\* A request that is let through is noted.
LEMMA LetThroughType ==
    ASSUME TypeOK, NEW bs, LetThrough(bs)
    PROVE  recent' \in [Buckets -> [0..(Hour - 1) -> Nat]]
  <1> SUFFICES ASSUME NEW b \in Buckets
               PROVE  recent'[b] \in [0..(Hour - 1) -> Nat]
    BY DEF LetThrough
  <1>1. recent[b] \in [0..(Hour - 1) -> Nat]
    BY DEF TypeOK
  <1>2. [recent[b] EXCEPT ![0] = @ + 1] \in [0..(Hour - 1) -> Nat]
    BY <1>1, GatewayAssumption
  <1> QED
    BY <1>1, <1>2 DEF LetThrough

\* So the three outcomes of a limited request keep the types.
LEMMA LimitedType ==
    ASSUME TypeOK, UNCHANGED conf, NEW first \in Buckets, NEW second, second \subseteq Buckets,
           \/ PassBoth(first, second)
           \/ RefusedByFirst(first)
           \/ RefusedBySecond(first, second)
    PROVE  LimitsType'
  <1>1. CASE PassBoth(first, second)
    BY <1>1, SpendType, LetThroughType DEF PassBoth, LimitsType
  <1>2. CASE RefusedByFirst(first)
    BY <1>2 DEF RefusedByFirst, LimitsType, TypeOK, Limit
  <1>3. CASE RefusedBySecond(first, second)
    <2>1. \A b \in {first} : ~Exhausted(b)
      BY <1>3 DEF RefusedBySecond
    <2> QED
      BY <1>3, <2>1, SpendType DEF RefusedBySecond, LimitsType, TypeOK
  <1> QED
    BY <1>1, <1>2, <1>3

\* The names of buckets the routes use.
LEMMA BucketNames ==
    /\ \A kind \in IpKinds, ip \in Ips : Ip(kind, ip) \in Buckets
    /\ \A k \in Keys \cup {NoKey} : KeyOf(k) \subseteq Buckets
    /\ \A kind \in EmailKinds, e \in Emails \cup {NoEmail} : EmailOf(kind, e) \subseteq Buckets
  BY DEF Ip, KeyOf, EmailOf, Buckets

\* The rest of the types, by what changes together.
StartType ==
    /\ env \in Env /\ conf \in Conf
    /\ proc \in {"starting", "exited", "ready", "up"}
    /\ traffic \in Traffics \cup {"none"}
    /\ phase \in 0..(Minute - 1) /\ crashes \in 0..MaxCrashes

MinuteType ==
    /\ calendar \in [Keys -> Nat] /\ counted \in [Keys -> Nat]
    /\ timers \in [Keys -> SUBSET [now : BOOLEAN, left : 0..Minute]]

TokenType ==
    /\ user \in 0..MaxTokens /\ disk \in 0..MaxTokens /\ tokens \in 0..MaxTokens
    /\ age \in [1..MaxTokens -> 0..(Hour + 1)]
    /\ sent \subseteq 1..MaxTokens /\ spent \subseteq 1..MaxTokens
    /\ diskErrors \in 0..MaxDiskErrors

\* The parts are the whole, before a step and after it.
LEMMA TypeParts ==
    /\ TypeOK => StartType /\ LimitsType /\ MinuteType /\ TokenType
    /\ StartType /\ LimitsType /\ MinuteType /\ TokenType => TypeOK
    /\ StartType' /\ LimitsType' /\ MinuteType' /\ TokenType' => TypeOK'
  BY DEF TypeOK, StartType, LimitsType, MinuteType, TokenType

\* The initial state has its types.
LEMMA InitType == Init => TypeOK
  <1> SUFFICES ASSUME Init
               PROVE  TypeOK
    OBVIOUS
  <1>1. Config(env) \in Conf /\ env \in Env
    BY EnvsAssumption DEF Init, Env, Conf, Config
  <1>2. StartType
    BY <1>1, GatewayAssumption DEF Init, StartType
  <1>3. conf.profile \in Profiles
    BY <1>1 DEF Init, Conf
  <1>4. LimitsType
    <2>1. windows \in [Buckets -> Window] /\ \A b \in Buckets : windows[b].count = 0
      BY GatewayAssumption DEF Init, Forgotten, NoWindow, Window
    <2>2. ASSUME NEW b \in Buckets
          PROVE  0 <= Limit(b)
      <3>1. b[1] \in BucketKinds
        BY DEF Buckets, BucketKinds
      <3> QED
        BY <1>3, <3>1, GatewayAssumption DEF Limit
    <2>3. recent \in [Buckets -> [0..(Hour - 1) -> Nat]]
      BY DEF Init, NoRequest
    <2> QED
      BY <2>1, <2>2, <2>3 DEF LimitsType
  <1>5. MinuteType
    BY DEF Init, MinuteType
  <1>6. TokenType
    BY GatewayAssumption DEF Init, TokenType
  <1> QED
    BY <1>2, <1>4, <1>5, <1>6, TypeParts

\* Parts of the state a step leaves alone keep their types.
LEMMA SameParts ==
    ASSUME TypeOK
    PROVE  /\ UNCHANGED <<startVars, phase, crashes>> => StartType'
           /\ UNCHANGED <<conf, windows, recent>> => LimitsType'
           /\ UNCHANGED minuteVars => MinuteType'
           /\ UNCHANGED tokenVars => TokenType'
  <1>0. StartType /\ LimitsType /\ MinuteType /\ TokenType
    BY TypeParts
  <1>1. UNCHANGED <<startVars, phase, crashes>> => StartType'
    BY <1>0 DEF StartType, startVars
  <1>2. UNCHANGED <<conf, windows, recent>> => LimitsType'
    BY <1>0 DEF LimitsType, Limit
  <1>3. UNCHANGED minuteVars => MinuteType'
    BY <1>0 DEF MinuteType, minuteVars
  <1>4. UNCHANGED tokenVars => TokenType'
    BY <1>0 DEF TokenType, tokenVars
  <1> QED
    BY <1>1, <1>2, <1>3, <1>4

\* The steps of the start and of a crash.
LEMMA StartTypes == TypeOK /\ (Start \/ Crash) => TypeOK'
  <1> SUFFICES ASSUME TypeOK, Start \/ Crash
               PROVE  TypeOK'
    OBVIOUS
  <1>0. StartType /\ LimitsType /\ MinuteType /\ TokenType
    BY TypeParts
  <1>1. CASE Start
    <2>1. StartType'
      BY <1>0, <1>1, GatewayAssumption
         DEF Start, PassCheck, RefuseToStart, StartAgain, Listen, StartType
    <2>2. UNCHANGED <<conf, windows, recent>> /\ UNCHANGED minuteVars /\ UNCHANGED tokenVars
      BY <1>1 DEF Start, PassCheck, RefuseToStart, StartAgain, Listen, minuteVars, tokenVars
    <2> QED
      BY <2>1, <2>2, SameParts, TypeParts
  <1>2. CASE Crash
    <2>1. StartType'
      BY <1>0, <1>2, GatewayAssumption DEF Crash, StartType
    <2>2. LimitsType'
      <3>1. windows' \in [Buckets -> Window] /\ \A b \in Buckets : windows'[b].count = 0
        BY <1>2, GatewayAssumption DEF Crash, Forgotten, NoWindow, Window
      <3>2. \A b \in Buckets : 0 <= Limit(b)'
        BY <1>2, BucketType DEF Crash, Limit
      <3>3. recent' \in [Buckets -> [0..(Hour - 1) -> Nat]]
        BY <1>0, <1>2 DEF Crash, LimitsType
      <3> QED
        BY <3>1, <3>2, <3>3 DEF LimitsType
    <2>3. MinuteType'
      BY <1>0, <1>2 DEF Crash, MinuteType
    <2>4. TokenType'
      BY <1>0, <1>2 DEF Crash, TokenType
    <2> QED
      BY <2>1, <2>2, <2>3, <2>4, TypeParts
  <1> QED
    BY <1>1, <1>2

\* A token is stored or taken away.
LEMMA SetTokenType ==
    ASSUME TypeOK, NEW t \in 0..MaxTokens, NEW ok \in BOOLEAN, SetToken(t, ok)
    PROVE  user' \in 0..MaxTokens /\ disk' \in 0..MaxTokens /\ diskErrors' \in 0..MaxDiskErrors
  BY GatewayAssumption DEF TypeOK, SetToken, CountWrite

\* The requests that are limited.
LEMMA LimitedTypes == TypeOK /\ Limited => TypeOK'
  <1> SUFFICES ASSUME TypeOK, Limited
               PROVE  TypeOK'
    OBVIOUS
  <1>1. PICK ip \in Ips :
            \/ \E k \in Keys \cup {NoKey} : Verify(ip, k)
            \/ \E kind \in {"signup", "login"} : SignUpOrLogin(kind, ip)
            \/ \E known \in {"none", "active", "failed"}, json \in BOOLEAN : Receipt(ip, known, json)
            \/ \E e \in Emails \cup {NoEmail} :
                   \/ Contact(ip, e) \/ RefuseReset(ip, e)
                   \/ \E ok \in BOOLEAN : RequestReset(ip, e, ok)
    BY DEF Limited
  <1>2. ASSUME NEW k \in Keys \cup {NoKey}, Verify(ip, k)
        PROVE  TypeOK'
    <2>1. LimitsType'
      <3>1. Ip("verify-ip", ip) \in Buckets /\ KeyOf(k) \subseteq Buckets
        BY BucketNames DEF IpKinds
      <3>2. UNCHANGED conf
        BY <1>2 DEF Verify, startVars
      <3> QED
        BY <1>2, <3>1, <3>2, LimitedType DEF Verify, CheckVerifyRateLimit
    <2> QED
      BY <1>2, <2>1, SameParts, TypeParts DEF Verify
  <1>3. ASSUME NEW kind \in {"signup", "login"}, SignUpOrLogin(kind, ip)
        PROVE  TypeOK'
    <2>1. LimitsType'
      <3>1. Ip(kind, ip) \in Buckets
        BY BucketNames DEF IpKinds
      <3>2. UNCHANGED conf
        BY <1>3 DEF SignUpOrLogin, startVars
      <3> QED
        BY <1>3, <3>1, <3>2, LimitedType DEF SignUpOrLogin, RateLimited
    <2> QED
      BY <1>3, <2>1, SameParts, TypeParts DEF SignUpOrLogin
  <1>4. ASSUME NEW known \in {"none", "active", "failed"}, NEW json \in BOOLEAN, Receipt(ip, known, json)
        PROVE  TypeOK'
    <2>1. LimitsType'
      <3>1. Ip("receipt-xrpl", ip) \in Buckets
        BY BucketNames DEF IpKinds
      <3>2. UNCHANGED conf
        BY <1>4 DEF Receipt, startVars
      <3>3. UNCHANGED <<windows, recent>> => LimitsType'
        BY <3>2, SameParts
      <3> QED
        BY <1>4, <3>1, <3>2, <3>3, LimitedType DEF Receipt, RateLimited
    <2> QED
      BY <1>4, <2>1, SameParts, TypeParts DEF Receipt
  <1>5. ASSUME NEW e \in Emails \cup {NoEmail}, Contact(ip, e)
        PROVE  TypeOK'
    <2>1. LimitsType'
      <3>1. Ip("contact-ip", ip) \in Buckets /\ EmailOf("contact-email", e) \subseteq Buckets
        BY BucketNames DEF IpKinds, EmailKinds
      <3>2. UNCHANGED conf
        BY <1>5 DEF Contact, startVars
      <3> QED
        BY <1>5, <3>1, <3>2, LimitedType DEF Contact
    <2> QED
      BY <1>5, <2>1, SameParts, TypeParts DEF Contact
  <1>6. ASSUME NEW e \in Emails \cup {NoEmail},
               RefuseReset(ip, e) \/ \E ok \in BOOLEAN : RequestReset(ip, e, ok)
        PROVE  TypeOK'
    <2>1. LimitsType'
      <3>1. Ip("reset-ip", ip) \in Buckets /\ EmailOf("reset-email", e) \subseteq Buckets
        BY BucketNames DEF IpKinds, EmailKinds
      <3>2. UNCHANGED conf
        BY <1>6 DEF RefuseReset, RequestReset, startVars
      <3> QED
        BY <1>6, <3>1, <3>2, LimitedType DEF RefuseReset, RequestReset
    <2>2. CASE RefuseReset(ip, e)
      BY <2>1, <2>2, SameParts, TypeParts DEF RefuseReset
    <2>3. ASSUME NEW ok \in BOOLEAN, RequestReset(ip, e, ok)
          PROVE  TypeOK'
      <3>1. TokenType'
        <4>1. CASE e = User
          <5>1. tokens + 1 \in 0..MaxTokens /\ tokens + 1 \in 1..MaxTokens
            BY <2>3, GatewayAssumption DEF RequestReset, TypeOK
          <5>2. SetToken(tokens + 1, ok)
            BY <2>3, <4>1 DEF RequestReset
          <5>3. user' \in 0..MaxTokens /\ disk' \in 0..MaxTokens /\ diskErrors' \in 0..MaxDiskErrors
            BY <5>1, <5>2, SetTokenType
          <5>4. /\ tokens' = tokens + 1 /\ sent' = IF ok THEN sent \cup {tokens + 1} ELSE sent
                /\ UNCHANGED <<age, spent>>
            BY <2>3, <4>1 DEF RequestReset
          <5> QED
            BY <5>1, <5>3, <5>4 DEF TokenType, TypeOK
        <4>2. CASE e # User
          BY <2>3, <4>2, SameParts DEF RequestReset
        <4> QED
          BY <4>1, <4>2
      <3> QED
        BY <2>1, <2>3, <3>1, SameParts, TypeParts DEF RequestReset
    <2> QED
      BY <1>6, <2>2, <2>3
  <1> QED
    BY <1>1, <1>2, <1>3, <1>4, <1>5, <1>6

\* The requests of keys, resets and the passing of time.
LEMMA OtherTypes ==
    ASSUME TypeOK,
           Keyed \/ Tick \/ \E t \in 1..MaxTokens, ok \in BOOLEAN : ResetPassword(t, ok)
    PROVE  TypeOK'
  <1>0. StartType /\ LimitsType /\ MinuteType /\ TokenType
    BY TypeParts
  <1>1. ASSUME NEW k \in Keys, NEW tier \in {"free", "paid"}, RequireApiKey(k, tier)
        PROVE  TypeOK'
    <2>1. [now |-> TRUE, left |-> Minute] \in [now : BOOLEAN, left : 0..Minute]
      BY GatewayAssumption
    <2>2. timers' \in [Keys -> SUBSET [now : BOOLEAN, left : 0..Minute]]
      <3>1. timers[k] \cup {[now |-> TRUE, left |-> Minute]}
                \in SUBSET [now : BOOLEAN, left : 0..Minute]
        BY <1>0, <2>1 DEF MinuteType
      <3> QED
        BY <1>0, <1>1, <3>1 DEF RequireApiKey, MinuteType
    <2>3. calendar' \in [Keys -> Nat] /\ counted' \in [Keys -> Nat]
      BY <1>0, <1>1 DEF RequireApiKey, MinuteType
    <2>4. MinuteType'
      BY <2>2, <2>3 DEF MinuteType
    <2> QED
      BY <1>1, <2>4, SameParts, TypeParts DEF RequireApiKey, startVars
  <1>2. ASSUME NEW k \in Keys, NEW timer \in timers[k], FireTimer(k, timer)
        PROVE  TypeOK'
    <2>1. timers' \in [Keys -> SUBSET [now : BOOLEAN, left : 0..Minute]]
      BY <1>0, <1>2 DEF FireTimer, MinuteType
    <2>2. calendar' \in [Keys -> Nat] /\ counted' \in [Keys -> Nat]
      BY <1>0, <1>2 DEF FireTimer, MinuteType
    <2>3. MinuteType'
      BY <2>1, <2>2 DEF MinuteType
    <2> QED
      BY <1>2, <2>3, SameParts, TypeParts DEF FireTimer, startVars
  <1>3. ASSUME NEW t \in 1..MaxTokens, NEW ok \in BOOLEAN, ResetPassword(t, ok)
        PROVE  TypeOK'
    <2>1. 0 \in 0..MaxTokens /\ SetToken(0, ok)
      BY <1>3, GatewayAssumption DEF ResetPassword
    <2>2. TokenType'
      BY <1>0, <1>3, <2>1, SetTokenType DEF ResetPassword, TokenType
    <2> QED
      BY <1>3, <2>2, SameParts, TypeParts DEF ResetPassword, startVars
  <1>4. CASE Tick
    <2>1. StartType'
      BY <1>0, <1>4, GatewayAssumption DEF Tick, StartType, startVars
    <2>2. LimitsType'
      <3>1. ASSUME NEW b \in Buckets
            PROVE  /\ windows'[b] \in Window
                   /\ windows'[b].count <= Limit(b)' \/ windows'[b].count = 1
        <4>1. windows[b] \in Window /\ (windows[b].count <= Limit(b) \/ windows[b].count = 1)
          BY <1>0 DEF LimitsType
        <4>2. Limit(b)' = Limit(b) /\ Limit(b) \in Nat
          BY <1>4, BucketType DEF Tick, startVars, Limit
        <4>3. windows'[b] = IF windows[b].left <= 1 THEN NoWindow
                            ELSE [windows[b] EXCEPT !.left = @ - 1]
          BY <1>4 DEF Tick
        <4> QED
          BY <4>1, <4>2, <4>3, GatewayAssumption DEF Window, NoWindow
      <3>2. ASSUME NEW b \in Buckets
            PROVE  recent'[b] \in [0..(Hour - 1) -> Nat]
        <4>1. recent[b] \in [0..(Hour - 1) -> Nat] /\ Length(b) <= Hour /\ Length(b) \in Nat
          BY <1>0, BucketType DEF LimitsType
        <4>2. recent'[b] = [n \in 0..(Hour - 1) |->
                               IF n \in 1..(Length(b) - 1) THEN recent[b][n - 1] ELSE 0]
          BY <1>4 DEF Tick
        <4> QED
          BY <4>1, <4>2, GatewayAssumption
      <3>3. /\ windows' = [b \in Buckets |-> windows'[b]]
            /\ recent' = [b \in Buckets |-> recent'[b]]
        BY <1>4 DEF Tick
      <3> QED
        BY <3>1, <3>2, <3>3 DEF LimitsType
    <2>3. MinuteType'
      <3>1. ASSUME NEW k \in Keys
            PROVE  timers'[k] \in SUBSET [now : BOOLEAN, left : 0..Minute]
        <4>1. timers[k] \in SUBSET [now : BOOLEAN, left : 0..Minute]
          BY <1>0 DEF MinuteType
        <4>2. timers'[k] = {[now |-> tm.now /\ phase' # 0, left |-> Minus1(tm.left)] : tm \in timers[k]}
          BY <1>4 DEF Tick
        <4>3. \A tm \in timers[k] : [now |-> tm.now /\ phase' # 0, left |-> Minus1(tm.left)]
                                        \in [now : BOOLEAN, left : 0..Minute]
          BY <4>1, GatewayAssumption DEF Minus1
        <4> QED
          BY <4>2, <4>3
      <3>2. timers' = [k \in Keys |-> timers'[k]]
        BY <1>4 DEF Tick
      <3>3. calendar' \in [Keys -> Nat] /\ counted' \in [Keys -> Nat]
        BY <1>0, <1>4 DEF Tick, MinuteType
      <3> QED
        BY <3>1, <3>2, <3>3 DEF MinuteType
    <2>4. TokenType'
      <3>1. /\ age' = [t \in 1..MaxTokens |-> IF t <= tokens /\ age[t] <= Hour THEN age[t] + 1 ELSE age[t]]
            /\ UNCHANGED <<user, disk, tokens, sent, spent, diskErrors>>
        BY <1>4 DEF Tick
      <3>2. age' \in [1..MaxTokens -> 0..(Hour + 1)]
        BY <1>0, <3>1, GatewayAssumption DEF TokenType
      <3> QED
        BY <1>0, <3>1, <3>2 DEF TokenType
    <2> QED
      BY <2>1, <2>2, <2>3, <2>4, TypeParts
  <1>5. ASSUME NEW k \in Keys, NEW tier \in {"free", "paid"}, KeyRefused(k, tier)
        PROVE  TypeOK'
    BY <1>5, SameParts, TypeParts DEF KeyRefused, vars, startVars
  <1> QED
    BY <1>1, <1>2, <1>3, <1>4, <1>5 DEF Keyed

\* Every step keeps the types.
LEMMA NextType == TypeOK /\ [Next]_vars => TypeOK'
  <1>1. TypeOK /\ UNCHANGED vars => TypeOK'
    BY SameParts, TypeParts DEF vars, startVars
  <1> QED
    BY <1>1, StartTypes, LimitedTypes, OtherTypes DEF Next

\* Every variable keeps its type, and no window counts more than its limit.
THEOREM TypeCorrect == Spec => []TypeOK
  <1>1. Init => TypeOK
    BY InitType
  <1>2. TypeOK /\ [Next]_vars => TypeOK'
    BY NextType
  <1> QED
    BY <1>1, <1>2, PTL DEF Spec

-----------------------------------------------------------------------------
(***************************************************************************)
(* The check at start: the settings of a process are those of its          *)
(* environment, and the check stands between the start and the listening.  *)
(***************************************************************************)
Checked ==
    /\ env \in Env
    /\ conf = Config(env)
    /\ proc \in {"ready", "up"} => EnvErrors(env) = {} \/ ~IsProduction(env)

\* Every step keeps that.
LEMMA NextChecked == Checked /\ [Next]_vars => Checked'
  <1> SUFFICES ASSUME Checked, [Next]_vars
               PROVE  Checked'
    OBVIOUS
  <1>1. CASE Start \/ Crash
    BY <1>1 DEF Start, PassCheck, RefuseToStart, StartAgain, Listen, Crash, Checked
  <1>2. CASE UNCHANGED startVars
    BY <1>2 DEF startVars, Checked
  <1>3. CASE Tick \/ Limited \/ Keyed \/ \E t \in 1..MaxTokens, ok \in BOOLEAN : ResetPassword(t, ok)
    <2>1. UNCHANGED startVars
      BY <1>3 DEF Tick, Limited, Keyed, ResetPassword, RequireApiKey, FireTimer, KeyRefused, vars,
                  Verify, SignUpOrLogin, Receipt, Contact, RefuseReset, RequestReset
    <2> QED
      BY <1>2, <2>1
  <1>4. CASE UNCHANGED vars
    BY <1>2, <1>4 DEF vars
  <1> QED
    BY <1>1, <1>3, <1>4 DEF Next

\* In the initial state nothing has been checked.
LEMMA InitChecked == Init => Checked
  BY EnvsAssumption DEF Init, Checked

\* Whatever marks the machine as production, what gets through the check is
\* sound; and what was not reported works.
THEOREM StartSound == Spec => []StartIsSound
  <1>1. Checked => StartedSound
    <2> SUFFICES ASSUME Checked, proc \in {"ready", "up"}, env.fly \/ env.nodeEnv = "production"
                 PROVE  /\ env.secret = "own"
                        /\ env.stripe => env.stripeWebhook
                        /\ conf.verifier \in {"bad", "undefined"} =>
                             "PAYMENT_VERIFIER_ADDRESS" \in EnvWarnings(env)
                        /\ conf.profile = "production" => conf.network = "flare"
      BY DEF StartedSound
    <2>1. EnvErrors(env) = {} /\ IsProduction(env)
      BY DEF Checked, IsProduction
    <2>2. env.secret # "default"
      <3>1. "SESSION_SECRET" \notin EnvErrors(env)
        BY <2>1
      <3> QED
        BY <2>1, <3>1 DEF EnvErrors
    <2>3. env.stripe => env.stripeWebhook
      <3>1. "STRIPE_WEBHOOK_SECRET" \notin EnvErrors(env)
        BY <2>1
      <3> QED
        BY <2>1, <3>1 DEF EnvErrors
    <2>4. VerifierOf(env) # "bad"
      <3>1. "PAYMENT_VERIFIER_ADDRESS" \notin EnvErrors(env)
        BY <2>1
      <3> QED
        BY <3>1 DEF EnvErrors
    <2>5. env.nodeEnv = "production" => env.network = "flare"
      <3>1. "FLARE_NETWORK" \notin EnvErrors(env)
        BY <2>1
      <3> QED
        BY <3>1 DEF EnvErrors
    <2>6. /\ conf.verifier = env.networkVerifier
          /\ conf.profile = env.nodeEnv /\ conf.network = env.network
      BY DEF Checked, Config
    <2> QED
      <3>1. conf.verifier = "undefined" => "PAYMENT_VERIFIER_ADDRESS" \in EnvWarnings(env)
        BY <2>6 DEF VerifierOf, EffectivelyUnset, EnvWarnings
      <3>2. conf.verifier # "bad"
        BY <2>4, <2>6 DEF VerifierOf
      <3> QED
        BY <2>2, <2>3, <2>5, <2>6, <3>1, <3>2 DEF Checked, Env
  <1>2. Checked => ReportTrue
    <2> SUFFICES ASSUME Checked, ~env.plainKey, env.plainVerifier = "unset"
                 PROVE  /\ conf.key <=> "PRIVATE_KEY" \notin EnvWarnings(env)
                        /\ conf.verifier = "good" <=>
                             "PAYMENT_VERIFIER_ADDRESS" \notin EnvWarnings(env) \cup EnvErrors(env)
                        /\ SaidDisabled /\ CallsContract <=> conf.verifier = "undefined"
                        /\ env.x402 =>
                             (OffersX402(env) <=> "X402_PAY_TO_ADDRESS" \notin EnvWarnings(env) \cup EnvErrors(env))
      BY DEF ReportTrue
    <2>1. conf.key <=> "PRIVATE_KEY" \notin EnvWarnings(env)
      <3>1. conf.key <=> env.networkKey
        BY DEF Checked, Config
      <3>2. "PRIVATE_KEY" \notin EnvWarnings(env) <=> env.networkKey
        BY DEF EnvWarnings, HasKey
      <3> QED
        BY <3>1, <3>2
    <2>2. /\ conf.verifier = "good" <=>
               "PAYMENT_VERIFIER_ADDRESS" \notin EnvWarnings(env) \cup EnvErrors(env)
          /\ SaidDisabled /\ CallsContract <=> conf.verifier = "undefined"
      <3>1. conf.verifier = env.networkVerifier /\ VerifierOf(env) = env.networkVerifier
        BY DEF Checked, Config, VerifierOf
      <3>2. "PAYMENT_VERIFIER_ADDRESS" \in EnvWarnings(env) <=> EffectivelyUnset(VerifierOf(env))
        BY DEF EnvWarnings
      <3>3. "PAYMENT_VERIFIER_ADDRESS" \in EnvErrors(env) <=> VerifierOf(env) = "bad"
        BY DEF EnvErrors
      <3>4. env.networkVerifier \in {"unset", "undefined", "bad", "good"}
        BY DEF Checked, Env, Verifiers, Addresses
      <3> QED
        BY <3>1, <3>2, <3>3, <3>4 DEF EffectivelyUnset, SaidDisabled, CallsContract
    <2>3. env.x402 => (OffersX402(env) <=> "X402_PAY_TO_ADDRESS" \notin EnvWarnings(env) \cup EnvErrors(env))
      <3>1. "X402_PAY_TO_ADDRESS" \in EnvWarnings(env) <=> env.x402 /\ env.payTo = "unset"
        BY DEF EnvWarnings
      <3>2. "X402_PAY_TO_ADDRESS" \in EnvErrors(env) <=> env.x402 /\ env.payTo = "bad"
        BY DEF EnvErrors
      <3>3. env.payTo \in {"unset", "bad", "good"}
        BY DEF Checked, Env, Addresses
      <3> QED
        BY <3>1, <3>2, <3>3 DEF OffersX402
    <2> QED
      BY <2>1, <2>2, <2>3
  <1>3. Checked => StartIsSound
    BY <1>1, <1>2 DEF StartIsSound
  <1> QED
    BY <1>3, InitChecked, NextChecked, PTL DEF Spec

-----------------------------------------------------------------------------
(***************************************************************************)
(* Reset tokens: a token in memory or on disk that was mailed is the       *)
(* newest and has not been used.                                           *)
(***************************************************************************)
Fit(t) == t \in sent => t \notin spent /\ \A later \in sent : later <= t

TokenInv ==
    /\ tokens \in Nat /\ user \in 0..tokens /\ disk \in 0..tokens
    /\ sent \subseteq 1..tokens /\ spent \subseteq sent
    /\ Fit(user) /\ Fit(disk)

\* Every step keeps that, the ones that write fail or not.
LEMMA NextTokens == TokenInv /\ [Next]_vars => TokenInv'
  <1> SUFFICES ASSUME TokenInv, [Next]_vars
               PROVE  TokenInv'
    OBVIOUS
  <1>1. CASE UNCHANGED <<user, disk, tokens, sent, spent>>
    BY <1>1 DEF TokenInv, Fit
  <1>2. ASSUME NEW ip \in Ips, NEW e, NEW ok \in BOOLEAN, RequestReset(ip, e, ok), e = User
        PROVE  TokenInv'
    <2>1. /\ user' = tokens + 1 /\ disk' = (IF ok THEN tokens + 1 ELSE disk) /\ tokens' = tokens + 1
          /\ sent' = (IF ok THEN sent \cup {tokens + 1} ELSE sent) /\ spent' = spent
      BY <1>2 DEF RequestReset, SetToken
    <2>2. tokens + 1 \notin sent /\ tokens + 1 \notin spent /\ \A t \in sent : t <= tokens + 1
      BY DEF TokenInv
    <2>3. CASE ok
      BY <2>1, <2>2, <2>3 DEF TokenInv, Fit
    <2>4. CASE ~ok
      BY <2>1, <2>2, <2>4 DEF TokenInv, Fit
    <2> QED
      BY <2>3, <2>4
  <1>3. ASSUME NEW t \in 1..MaxTokens, NEW ok \in BOOLEAN, ResetPassword(t, ok)
        PROVE  TokenInv'
    <2>1. /\ user' = 0 /\ disk' = (IF ok THEN 0 ELSE disk) /\ t \in sent
          /\ spent' = (IF ok THEN spent \cup {t} ELSE spent) /\ UNCHANGED <<tokens, sent>>
      BY <1>3 DEF ResetPassword, SetToken
    <2>2. 0 \notin sent
      BY DEF TokenInv
    <2>3. CASE ok
      BY <2>1, <2>2, <2>3 DEF TokenInv, Fit
    <2>4. CASE ~ok
      BY <2>1, <2>2, <2>4 DEF TokenInv, Fit
    <2> QED
      BY <2>3, <2>4
  <1>4. CASE Crash
    BY <1>4 DEF Crash, TokenInv, Fit
  <1>5. ASSUME NEW ip \in Ips, NEW e, NEW ok \in BOOLEAN, RequestReset(ip, e, ok), e # User
        PROVE  TokenInv'
    BY <1>1, <1>5 DEF RequestReset, tokenVars
  <1>6. CASE Start \/ Tick \/ Keyed
    BY <1>1, <1>6 DEF Start, PassCheck, RefuseToStart, StartAgain, Listen, Tick, Keyed,
                      RequireApiKey, FireTimer, KeyRefused, vars, tokenVars
  <1>7. CASE Limited
    BY <1>1, <1>2, <1>5, <1>7
       DEF Limited, Verify, SignUpOrLogin, Receipt, Contact, RefuseReset, tokenVars
  <1>8. CASE UNCHANGED vars
    BY <1>1, <1>8 DEF vars, tokenVars
  <1> QED
    BY <1>3, <1>4, <1>6, <1>7, <1>8 DEF Next

\* A reset token is good once, and only the newest one that was mailed, also
\* over failing writes and restarts.
THEOREM TokensGoodOnce == Spec => []TokenGoodOnce
  <1>1. Init => TokenInv
    BY DEF Init, TokenInv, Fit
  <1>2. TokenInv => TokenGoodOnce
    BY DEF TokenInv, Fit, TokenGoodOnce, Good
  <1> QED
    BY <1>1, <1>2, NextTokens, PTL DEF Spec

-----------------------------------------------------------------------------
(***************************************************************************)
(* requireApiKey: a timer started in this minute does not end within it,   *)
(* so only a new minute or a restart gives a key room.                     *)
(***************************************************************************)
Room == Max({TierLimits["free"], TierLimits["paid"]})

\* The larger of the two limits.
LEMMA RoomType == Room \in Nat /\ \A tier \in {"free", "paid"} : TierLimits[tier] <= Room
  <1> DEFINE S == {TierLimits["free"], TierLimits["paid"]}
  <1>1. TierLimits["free"] \in Nat /\ TierLimits["paid"] \in Nat
    BY GatewayAssumption
  <1>2. \E x \in S : \A y \in S : x >= y
    BY <1>1
  <1>3. Room \in S /\ \A y \in S : Room >= y
    BY <1>2 DEF Room, Max
  <1> QED
    BY <1>1, <1>3

TimersLast == \A k \in Keys : \A timer \in timers[k] : timer.now => timer.left + phase >= Minute

MinuteInv ==
    /\ TimersLast
    /\ \A k \in Keys : calendar[k] <= Room /\ counted[k] <= crashes * Room + calendar[k]

\* Every step keeps that.
LEMMA NextMinute == TypeOK /\ MinuteInv /\ [Next]_vars => MinuteInv'
  <1> SUFFICES ASSUME TypeOK, MinuteInv, [Next]_vars
               PROVE  MinuteInv'
    OBVIOUS
  <1>0. /\ phase \in Nat /\ phase < Minute /\ Minute \in Nat \ {0} /\ crashes \in Nat
        /\ calendar \in [Keys -> Nat] /\ counted \in [Keys -> Nat]
        /\ timers \in [Keys -> SUBSET [now : BOOLEAN, left : 0..Minute]]
        /\ Room \in Nat /\ crashes * Room \in Nat
    BY RoomType, GatewayAssumption DEF TypeOK
  <1>1. CASE UNCHANGED <<minuteVars, phase, crashes>>
    BY <1>1 DEF MinuteInv, TimersLast, minuteVars
  <1>2. ASSUME NEW k \in Keys, NEW tier \in {"free", "paid"}, RequireApiKey(k, tier)
        PROVE  MinuteInv'
    <2>1. /\ calendar' = [calendar EXCEPT ![k] = @ + 1] /\ counted' = [counted EXCEPT ![k] = @ + 1]
          /\ timers' = [timers EXCEPT ![k] = @ \cup {[now |-> TRUE, left |-> Minute]}]
          /\ UNCHANGED <<phase, crashes>>
      BY <1>2 DEF RequireApiKey
    <2>2. calendar[k] < Room
      <3>1. calendar[k] < TierLimits[tier] /\ TierLimits[tier] \in Nat
        BY <1>2, GatewayAssumption DEF RequireApiKey
      <3> QED
        BY <1>0, <3>1, RoomType
    <2>3. TimersLast'
      <3> SUFFICES ASSUME NEW j \in Keys, NEW timer \in timers'[j], timer.now
                   PROVE  timer.left + phase >= Minute
        BY <2>1 DEF TimersLast
      <3>1. timer \in timers[j] \/ timer = [now |-> TRUE, left |-> Minute]
        BY <1>0, <2>1
      <3> QED
        BY <1>0, <3>1 DEF MinuteInv, TimersLast
    <2>4. (\A j \in Keys : calendar[j] <= Room /\ counted[j] <= crashes * Room + calendar[j])'
      <3> SUFFICES ASSUME NEW j \in Keys
                   PROVE  calendar'[j] <= Room /\ counted'[j] <= crashes * Room + calendar'[j]
        BY <2>1 DEF Room
      <3>1. calendar[j] <= Room /\ counted[j] <= crashes * Room + calendar[j]
        BY DEF MinuteInv
      <3> DEFINE used == crashes * Room
      <3>2. used \in Nat
        BY <1>0
      <3> HIDE DEF used
      <3>3. counted[j] <= used + calendar[j]
        BY <3>1 DEF used
      <3>4. calendar'[j] <= Room /\ counted'[j] <= used + calendar'[j]
        BY <1>0, <2>1, <2>2, <3>1, <3>2, <3>3
      <3> QED
        BY <3>4 DEF used
    <2> QED
      BY <2>3, <2>4 DEF MinuteInv
  <1>3. ASSUME NEW k \in Keys, NEW timer \in timers[k], FireTimer(k, timer)
        PROVE  MinuteInv'
    <2>1. timer.left = 0 /\ timer \in [now : BOOLEAN, left : 0..Minute]
      BY <1>0, <1>3 DEF FireTimer
    <2>2. ~timer.now
      BY <1>0, <2>1 DEF MinuteInv, TimersLast
    <2>3. /\ timers' = [timers EXCEPT ![k] = @ \ {timer}]
          /\ UNCHANGED <<calendar, counted, phase, crashes>>
      BY <1>3, <2>2 DEF FireTimer
    <2>4. TimersLast'
      <3> SUFFICES ASSUME NEW j \in Keys, NEW tm \in timers'[j], tm.now
                   PROVE  tm.left + phase >= Minute
        BY <2>3 DEF TimersLast
      <3>1. tm \in timers[j]
        BY <1>0, <2>3
      <3> QED
        BY <3>1 DEF MinuteInv, TimersLast
    <2> QED
      BY <2>3, <2>4 DEF MinuteInv, Room
  <1>4. CASE Tick
    <2>1. /\ phase' = (phase + 1) % Minute /\ crashes' = crashes
          /\ calendar' = (IF phase' = 0 THEN [k \in Keys |-> 0] ELSE calendar)
          /\ counted' = (IF phase' = 0 THEN [k \in Keys |-> 0] ELSE counted)
          /\ timers' = [k \in Keys |-> {[now |-> tm.now /\ phase' # 0, left |-> Minus1(tm.left)] :
                                            tm \in timers[k]}]
      BY <1>4 DEF Tick
    <2>2. phase' # 0 => phase' = phase + 1
      <3>0. phase' = (phase + 1) % Minute /\ phase \in Nat /\ phase < Minute /\ Minute \in Nat \ {0}
        BY <1>0, <2>1
      <3>1. CASE phase + 1 < Minute
        BY <3>0, <3>1
      <3>2. CASE phase + 1 = Minute
        BY <3>0, <3>2
      <3> QED
        BY <1>0, <3>1, <3>2
    <2>3. TimersLast'
      <3> SUFFICES ASSUME NEW k \in Keys, NEW timer \in timers'[k], timer.now
                   PROVE  timer.left + phase' >= Minute
        BY DEF TimersLast
      <3>1. PICK tm \in timers[k] : timer = [now |-> tm.now /\ phase' # 0, left |-> Minus1(tm.left)]
        BY <2>1
      <3>2. tm.now /\ phase' # 0 /\ timer.left = Minus1(tm.left)
        BY <3>1
      <3>3. tm.left + phase >= Minute /\ tm.left \in Nat
        BY <1>0, <3>2 DEF MinuteInv, TimersLast
      <3> QED
        BY <1>0, <2>2, <3>2, <3>3 DEF Minus1
    <2>4. (\A k \in Keys : calendar[k] <= Room /\ counted[k] <= crashes * Room + calendar[k])'
      <3> SUFFICES ASSUME NEW k \in Keys
                   PROVE  calendar'[k] <= Room /\ counted'[k] <= crashes * Room + calendar'[k]
        BY <2>1 DEF Room
      <3>1. CASE phase' = 0
        BY <1>0, <2>1, <3>1
      <3>2. CASE phase' # 0
        BY <2>1, <3>2 DEF MinuteInv
      <3> QED
        BY <3>1, <3>2
    <2> QED
      BY <2>3, <2>4 DEF MinuteInv
  <1>5. CASE Crash
    <2>1. /\ crashes' = crashes + 1 /\ calendar' = [k \in Keys |-> 0]
          /\ timers' = [k \in Keys |-> {}] /\ counted' = counted
      BY <1>5 DEF Crash
    <2>2. ASSUME NEW k \in Keys
          PROVE  calendar'[k] <= Room /\ counted'[k] <= crashes' * Room + calendar'[k]
      <3>1. calendar[k] <= Room /\ counted[k] <= crashes * Room + calendar[k]
        BY DEF MinuteInv
      <3>2. (crashes + 1) * Room = crashes * Room + Room
        BY <1>0
      <3> QED
        BY <1>0, <2>1, <3>1, <3>2
    <2>3. TimersLast'
      BY <2>1 DEF TimersLast
    <2> QED
      BY <2>2, <2>3 DEF MinuteInv, Room
  <1>6. CASE Start \/ Limited \/ \E t \in 1..MaxTokens, ok \in BOOLEAN : ResetPassword(t, ok)
    <2>1. UNCHANGED <<minuteVars, phase, crashes>>
      BY <1>6 DEF Start, PassCheck, RefuseToStart, StartAgain, Listen, Limited, Verify,
                  SignUpOrLogin, Receipt, Contact, RefuseReset, RequestReset, ResetPassword
    <2> QED
      BY <1>1, <2>1
  <1>7. CASE UNCHANGED vars
    BY <1>1, <1>7 DEF vars
  <1>8. ASSUME NEW k \in Keys, NEW tier \in {"free", "paid"}, KeyRefused(k, tier)
        PROVE  MinuteInv'
    BY <1>7, <1>8 DEF KeyRefused
  <1> QED
    BY <1>2, <1>3, <1>4, <1>5, <1>6, <1>7, <1>8 DEF Next, Keyed

\* However timers fire late and tiers change, a key gets through at most its
\* larger limit within a minute, and as much again for each restart.
THEOREM MinutesBounded == Spec => []MinuteBounded
  <1>1. Init => TypeOK /\ MinuteInv
    <2> SUFFICES ASSUME Init
                 PROVE  MinuteInv
      BY InitType
    <2>1. TimersLast
      BY DEF Init, TimersLast
    <2>2. \A k \in Keys : calendar[k] <= Room /\ counted[k] <= crashes * Room + calendar[k]
      BY RoomType DEF Init
    <2> QED
      BY <2>1, <2>2 DEF MinuteInv
  <1>2. TypeOK /\ MinuteInv => MinuteBounded
    <2> SUFFICES ASSUME TypeOK, MinuteInv, NEW k \in Keys
                 PROVE  counted[k] <= (1 + crashes) * Room
      BY DEF MinuteBounded, Room
    <2>1. calendar[k] <= Room /\ counted[k] <= crashes * Room + calendar[k]
      BY DEF MinuteInv
    <2>2. calendar[k] \in Nat /\ counted[k] \in Nat /\ crashes \in Nat /\ Room \in Nat
      BY RoomType, GatewayAssumption DEF TypeOK
    <2>3. (1 + crashes) * Room = crashes * Room + Room /\ crashes * Room \in Nat
      BY <2>2
    <2> QED
      BY <2>1, <2>2, <2>3
  <1>3. (TypeOK /\ MinuteInv) /\ [Next]_vars => (TypeOK /\ MinuteInv)'
    BY NextType, NextMinute
  <1> QED
    BY <1>1, <1>2, <1>3, PTL DEF Spec

-----------------------------------------------------------------------------
(***************************************************************************)
(* Spans.  Of the requests that a bucket let through within one length of  *)
(* its window, the current window counts those that are newer than itself; *)
(* the others came in one window before it, or in one that a restart cut   *)
(* off.                                                                    *)
(***************************************************************************)
Ages == 0..(Hour - 1)
Cap(b) == Max({1, Limit(b)})

\* Of the requests of f those younger than m, and f a tick later.
Younger(f, m) == [n \in Ages |-> IF n < m THEN f[n] ELSE 0]
Aged(f, l)    == [n \in Ages |-> IF n \in 1..(l - 1) THEN f[n - 1] ELSE 0]

SpanOK(b) ==
    /\ windows[b].count <= Cap(b)
    /\ windows[b].left = 0 => windows[b].count = 0
    /\ windows[b].left > 0 =>
          Total(Younger(recent[b], Length(b) - windows[b].left)) <= windows[b].count
    /\ Total(recent[b]) <= windows[b].count + (1 + crashes) * Cap(b)

Spans == \A b \in Buckets : SpanOK(b)

\* There are finitely many ages, and an hour is longer than nothing.
LEMMA AgesType == IsFiniteSet(Ages) /\ 0 \in Ages /\ Hour \in Nat \ {0}
  <1>1. Hour \in Nat \ {0}
    BY GatewayAssumption
  <1>2. IsFiniteSet(Ages)
    BY <1>1, FS_Interval DEF Ages
  <1> QED
    BY <1>1, <1>2 DEF Ages

\* A bucket's cap is its limit, and one when the limit is zero.
LEMMA CapType ==
    ASSUME TypeOK, NEW b \in Buckets
    PROVE  Cap(b) \in Nat /\ 1 <= Cap(b) /\ Limit(b) <= Cap(b) /\ (Cap(b) = 1 \/ Cap(b) = Limit(b))
  <1> DEFINE S == {1, Limit(b)}
  <1>1. Limit(b) \in Nat
    BY BucketType
  <1>2. \E x \in S : \A y \in S : x >= y
    BY <1>1
  <1>3. Cap(b) \in S /\ \A y \in S : Cap(b) >= y
    BY <1>2 DEF Cap, Max
  <1> QED
    BY <1>1, <1>3

\* One more request just now.
LEMMA OneMore ==
    ASSUME NEW f \in [Ages -> Nat], NEW m \in Int
    PROVE  LET g == [f EXCEPT ![0] = @ + 1]
           IN  /\ g \in [Ages -> Nat]
               /\ Total(g) = Total(f) + 1
               /\ Younger(f, m) \in [Ages -> Nat] /\ Younger(g, m) \in [Ages -> Nat]
               /\ Total(Younger(g, m)) <= Total(Younger(f, m)) + 1
  <1> DEFINE g == [f EXCEPT ![0] = @ + 1]
             y == Younger(f, m)
             z == Younger(g, m)
  <1>1. g \in [Ages -> Nat] /\ g[0] = f[0] + 1 /\ \A n \in Ages \ {0} : g[n] = f[n]
    BY AgesType
  <1>2. f[0] \in Nat
    BY AgesType
  <1> HIDE DEF g
  <1>3. y \in [Ages -> Nat] /\ z \in [Ages -> Nat]
    BY <1>1 DEF Younger
  <1>4. (z[0] = y[0] + 1 \/ z[0] = y[0]) /\ \A n \in Ages \ {0} : z[n] = y[n]
    <2>1. 0 < m => z[0] = y[0] + 1
      BY <1>1, AgesType DEF Younger
    <2>2. ~(0 < m) => z[0] = y[0]
      BY AgesType DEF Younger
    <2>3. \A n \in Ages \ {0} : z[n] = y[n]
      BY <1>1 DEF Younger
    <2> QED
      BY <2>1, <2>2, <2>3
  <1> HIDE DEF y, z
  <1>5. Total(g) + f[0] = Total(f) + g[0]
    BY <1>1, AgesType, TotalChange
  <1>6. Total(z) + y[0] = Total(y) + z[0]
    BY <1>3, <1>4, AgesType, TotalChange
  <1>7. Total(f) \in Nat /\ Total(g) \in Nat /\ Total(y) \in Nat /\ Total(z) \in Nat
    BY <1>1, <1>3, AgesType, TotalType
  <1>8. y[0] \in Nat /\ z[0] \in Nat
    BY <1>3, AgesType
  <1>9. Total(g) = Total(f) + 1
    BY <1>1, <1>2, <1>5, <1>7
  <1>10. Total(z) <= Total(y) + 1
    BY <1>4, <1>6, <1>7, <1>8
  <1> QED
    BY <1>1, <1>3, <1>9, <1>10 DEF g, y, z

\* The younger ones are a part, and none when the age is not above zero.
LEMMA YoungerIs ==
    ASSUME NEW f \in [Ages -> Nat], NEW m \in Int
    PROVE  /\ Younger(f, m) \in [Ages -> Nat] /\ Total(Younger(f, m)) \in Nat /\ Total(f) \in Nat
           /\ Total(Younger(f, m)) <= Total(f)
           /\ m <= 0 => Total(Younger(f, m)) = 0
  <1> DEFINE y == Younger(f, m)
  <1>1. y \in [Ages -> Nat] /\ \A n \in Ages : y[n] <= f[n]
    BY DEF Younger
  <1>2. m <= 0 => \A n \in Ages : y[n] = 0
    <2> SUFFICES ASSUME m <= 0, NEW n \in Ages
                 PROVE  y[n] = 0
      OBVIOUS
    <2>1. ~(n < m)
      BY DEF Ages
    <2> QED
      BY <2>1 DEF Younger
  <1> HIDE DEF y
  <1>3. Total(y) \in Nat /\ Total(f) \in Nat
    BY <1>1, AgesType, TotalType
  <1>4. Total(y) <= Total(f)
    BY <1>1, AgesType, TotalMonotone
  <1>5. m <= 0 => Total(y) = 0
    BY <1>1, <1>2, TotalZero
  <1> QED
    BY <1>1, <1>3, <1>4, <1>5 DEF y

\* A request gets older.
LEMMA OlderTotal ==
    ASSUME NEW f \in [Ages -> Nat], NEW g \in [Ages -> Nat],
           g[0] = 0, \A n \in Ages \ {0} : g[n] <= f[n - 1]
    PROVE  Total(g) <= Total(f)
  <1> DEFINE T == Ages \ {0}
             h == [n \in T |-> n - 1]
  <1>1. T \in SUBSET Ages /\ h \in [T -> Ages]
    BY AgesType DEF Ages
  <1>2. \A x, y \in T : h[x] = h[y] => x = y
    BY AgesType DEF Ages
  <1>3. (\A x \in Ages \ T : g[x] = 0) /\ \A x \in T : g[x] <= f[h[x]]
    OBVIOUS
  <1> HIDE DEF T, h
  <1> QED
    BY <1>1, <1>2, <1>3, AgesType, TotalShift

\* After a tick, the requests are those that were younger than a length less
\* one, and the younger ones are the younger ones, a tick older.
LEMMA AgedTotals ==
    ASSUME NEW f \in [Ages -> Nat], NEW l \in 1..Hour, NEW m \in Int
    PROVE  /\ Aged(f, l) \in [Ages -> Nat]
           /\ Total(Aged(f, l)) <= Total(f)
           /\ Total(Aged(f, l)) <= Total(Younger(f, l - 1))
           /\ Total(Younger(Aged(f, l), m + 1)) <= Total(Younger(f, m))
  <1> DEFINE g == Aged(f, l)
             y == Younger(f, l - 1)
             z == Younger(f, m)
             w == Younger(g, m + 1)
  <1>0. l - 1 \in Int /\ m + 1 \in Int
    BY AgesType
  <1>1. g \in [Ages -> Nat] /\ g[0] = 0 /\ \A n \in Ages \ {0} : g[n] <= f[n - 1] /\ g[n] <= y[n - 1]
    <2>1. \A n \in Ages \ {0} : n - 1 \in Ages
      BY AgesType DEF Ages
    <2>2. g \in [Ages -> Nat]
      <3>1. \A n \in 1..(l - 1) : n - 1 \in Ages
        BY AgesType DEF Ages
      <3> QED
        BY <3>1 DEF Aged
    <2>3. g[0] = 0
      BY AgesType DEF Aged
    <2>4. ASSUME NEW n \in Ages \ {0}
          PROVE  g[n] <= f[n - 1] /\ g[n] <= y[n - 1]
      <3>1. f[n - 1] \in Nat /\ y[n - 1] = IF n - 1 < l - 1 THEN f[n - 1] ELSE 0
        BY <2>1 DEF Younger
      <3>2. g[n] = IF n \in 1..(l - 1) THEN f[n - 1] ELSE 0
        BY DEF Aged
      <3>3. n \in 1..(l - 1) => n - 1 < l - 1
        BY AgesType DEF Ages
      <3> QED
        BY <3>1, <3>2, <3>3
    <2> QED
      BY <2>2, <2>3, <2>4
  <1>2. y \in [Ages -> Nat] /\ z \in [Ages -> Nat]
    BY <1>0, YoungerIs
  <1>3. w \in [Ages -> Nat] /\ w[0] = 0 /\ \A n \in Ages \ {0} : w[n] <= z[n - 1]
    <2> HIDE DEF g
    <2>1. w \in [Ages -> Nat]
      BY <1>0, <1>1, YoungerIs
    <2>2. w[0] = 0
      BY <1>1, AgesType DEF Younger
    <2>3. ASSUME NEW n \in Ages \ {0}
          PROVE  w[n] <= z[n - 1]
      <3>1. n - 1 \in Ages /\ n \in Nat
        BY AgesType DEF Ages
      <3>2. w[n] = IF n < m + 1 THEN g[n] ELSE 0
        BY DEF Younger
      <3>3. z[n - 1] = IF n - 1 < m THEN f[n - 1] ELSE 0
        BY <3>1 DEF Younger
      <3>4. g[n] <= f[n - 1] /\ f[n - 1] \in Nat
        BY <1>1, <3>1
      <3> QED
        BY <3>1, <3>2, <3>3, <3>4
    <2> QED
      BY <2>1, <2>2, <2>3
  <1> HIDE DEF g, y, z, w
  <1>4. Total(g) <= Total(f) /\ Total(g) <= Total(y)
    BY <1>1, <1>2, OlderTotal
  <1>5. Total(w) <= Total(z)
    BY <1>2, <1>3, OlderTotal
  <1> QED
    BY <1>1, <1>4, <1>5 DEF g, y, z, w

\* A span is in order after a step that leaves the configuration alone.
LEMMA SpanAfter ==
    ASSUME NEW b \in Buckets, UNCHANGED conf,
           windows'[b].count <= Cap(b),
           windows'[b].left = 0 => windows'[b].count = 0,
           windows'[b].left > 0 =>
               Total(Younger(recent'[b], Length(b) - windows'[b].left)) <= windows'[b].count,
           Total(recent'[b]) <= windows'[b].count + (1 + crashes') * Cap(b)
    PROVE  SpanOK(b)'
  <1>1. Cap(b)' = Cap(b) /\ Length(b)' = Length(b)
    BY DEF Cap, Limit, Length
  <1> QED
    BY <1>1 DEF SpanOK

\* What is known of a bucket.
LEMMA SpanType ==
    ASSUME TypeOK, NEW b \in Buckets
    PROVE  /\ windows[b].count \in Nat /\ windows[b].left \in 0..Hour /\ windows[b] \in Window
           /\ recent[b] \in [Ages -> Nat] /\ Total(recent[b]) \in Nat
           /\ crashes \in Nat /\ (1 + crashes) * Cap(b) \in Nat /\ Cap(b) <= (1 + crashes) * Cap(b)
           /\ Length(b) \in 1..Hour
  <1>1. windows[b] \in Window /\ recent[b] \in [Ages -> Nat] /\ crashes \in Nat
    BY GatewayAssumption DEF TypeOK, Ages
  <1>2. windows[b].count \in Nat /\ windows[b].left \in 0..Hour
    BY <1>1 DEF Window
  <1>3. Total(recent[b]) \in Nat
    BY <1>1, AgesType, TotalType
  <1>4. Length(b) \in 1..Hour
    BY BucketType, AgesType
  <1>5. (1 + crashes) * Cap(b) \in Nat /\ Cap(b) <= (1 + crashes) * Cap(b)
    <2>1. Cap(b) \in Nat
      BY CapType
    <2>2. crashes * Cap(b) \in Nat
      BY <1>1, <2>1
    <2>3. (1 + crashes) * Cap(b) = Cap(b) + crashes * Cap(b)
      BY <1>1, <2>1
    <2> QED
      BY <2>1, <2>2, <2>3
  <1> QED
    BY <1>1, <1>2, <1>3, <1>4, <1>5

\* A bucket that no request concerns.
LEMMA SameSpan ==
    ASSUME NEW b \in Buckets, SpanOK(b), UNCHANGED <<conf, crashes>>,
           windows'[b] = windows[b], recent'[b] = recent[b]
    PROVE  SpanOK(b)'
  <1>1. /\ windows'[b].count <= Cap(b)
        /\ windows'[b].left = 0 => windows'[b].count = 0
        /\ windows'[b].left > 0 =>
              Total(Younger(recent'[b], Length(b) - windows'[b].left)) <= windows'[b].count
        /\ Total(recent'[b]) <= windows'[b].count + (1 + crashes') * Cap(b)
    BY DEF SpanOK
  <1> QED
    BY <1>1, SpanAfter

\* A request that the bucket counts, whether it is let through in the end
\* or not.
LEMMA SpendSpan ==
    ASSUME TypeOK, NEW b \in Buckets, SpanOK(b), UNCHANGED <<conf, crashes>>, ~Exhausted(b),
           windows'[b] = IF windows[b].left = 0 THEN [count |-> 1, left |-> Length(b)]
                         ELSE [windows[b] EXCEPT !.count = @ + 1],
           recent'[b] = recent[b] \/ recent'[b] = [recent[b] EXCEPT ![0] = @ + 1]
    PROVE  SpanOK(b)'
  <1> DEFINE f == recent[b]
             g == recent'[b]
             used == (1 + crashes) * Cap(b)
             count == windows[b].count
  <1>1. /\ count \in Nat /\ windows[b].left \in 0..Hour /\ f \in [Ages -> Nat] /\ Total(f) \in Nat
        /\ used \in Nat /\ Length(b) \in 1..Hour /\ windows[b] \in Window
    BY SpanType
  <1>2. Cap(b) \in Nat /\ 1 <= Cap(b) /\ Limit(b) <= Cap(b) /\ Limit(b) \in Nat
    BY CapType, BucketType
  <1>3. /\ count <= Cap(b) /\ Total(f) <= count + used
        /\ windows[b].left = 0 => count = 0
        /\ windows[b].left > 0 => Total(Younger(f, Length(b) - windows[b].left)) <= count
    BY DEF SpanOK
  <1>4. g \in [Ages -> Nat] /\ Total(g) \in Nat /\ Total(g) <= Total(f) + 1
    <2>1. CASE g = f
      BY <1>1, <2>1
    <2>2. CASE g = [f EXCEPT ![0] = @ + 1]
      <3> HIDE DEF f, g
      <3>1. ASSUME NEW m \in Int
            PROVE  g \in [Ages -> Nat] /\ Total(g) = Total(f) + 1
        BY <1>1, <2>2, OneMore
      <3>2. \E m \in Int : TRUE
        OBVIOUS
      <3> QED
        BY <1>1, <3>1, <3>2
    <2> QED
      BY <2>1, <2>2
  <1>5. ASSUME NEW m \in Int
        PROVE  Total(Younger(g, m)) <= Total(Younger(f, m)) + 1
    <2>0. Total(Younger(f, m)) \in Nat
      BY <1>1, YoungerIs
    <2>1. CASE g = f
      BY <2>0, <2>1
    <2>2. CASE g = [f EXCEPT ![0] = @ + 1]
      <3> HIDE DEF f, g
      <3> QED
        BY <1>1, <2>2, OneMore
    <2> QED
      BY <2>1, <2>2
  <1>6. CASE windows[b].left = 0
    <2>1. windows'[b].count = 1 /\ windows'[b].left = Length(b)
      BY <1>6
    <2>2. Length(b) - windows'[b].left = 0 /\ windows'[b].left # 0
      BY <1>1, <2>1
    <2>3. Total(Younger(g, 0)) = 0
      <3> HIDE DEF g
      <3> QED
        BY <1>4, YoungerIs
    <2>4. Total(g) <= 1 + used
      <3> HIDE DEF f, g, used, count
      <3> QED
        BY <1>1, <1>3, <1>4, <1>6
    <2>5. Total(Younger(recent'[b], Length(b) - windows'[b].left)) <= windows'[b].count
      BY <2>1, <2>2, <2>3
    <2>6. Total(recent'[b]) <= windows'[b].count + (1 + crashes') * Cap(b)
      BY <2>1, <2>4
    <2> QED
      BY <1>2, <2>1, <2>2, <2>5, <2>6, SpanAfter
  <1>7. CASE windows[b].left # 0
    <2>1. windows'[b].count = count + 1 /\ windows'[b].left = windows[b].left
      BY <1>1, <1>7 DEF Window
    <2>2. count < Limit(b)
      <3>1. ~(count >= Limit(b))
        BY <1>1, <1>7 DEF Exhausted
      <3> QED
        BY <1>1, <1>2, <3>1
    <2>3. windows'[b].count <= Cap(b)
      BY <1>1, <1>2, <2>1, <2>2
    <2> DEFINE m == Length(b) - windows[b].left
    <2>4. m \in Int /\ Total(Younger(f, m)) <= count
      BY <1>1, <1>3, <1>7
    <2>5. Total(Younger(f, m)) \in Nat /\ Total(Younger(g, m)) \in Nat
      <3> HIDE DEF f, g, m
      <3> QED
        BY <1>1, <1>4, <2>4, YoungerIs
    <2>6. Total(Younger(g, m)) <= Total(Younger(f, m)) + 1
      BY <1>5, <2>4
    <2>7. Total(Younger(g, m)) <= count + 1 /\ Total(g) <= count + 1 + used
      <3> HIDE DEF f, g, m, used, count
      <3> QED
        BY <1>1, <1>3, <1>4, <2>4, <2>5, <2>6
    <2>8. Total(Younger(recent'[b], Length(b) - windows'[b].left)) <= windows'[b].count
      BY <2>1, <2>7
    <2>9. Total(recent'[b]) <= windows'[b].count + (1 + crashes') * Cap(b)
      BY <2>1, <2>7
    <2> QED
      BY <1>7, <2>1, <2>3, <2>8, <2>9, SpanAfter
  <1> QED
    BY <1>6, <1>7

\* What a limited request does to a bucket: nothing, or it counts, and is
\* let through or not.
SpendsOn(b) ==
    /\ ~Exhausted(b)
    /\ windows'[b] = IF windows[b].left = 0 THEN [count |-> 1, left |-> Length(b)]
                     ELSE [windows[b] EXCEPT !.count = @ + 1]
    /\ recent'[b] = recent[b] \/ recent'[b] = [recent[b] EXCEPT ![0] = @ + 1]

LeavesBucket(b) == windows'[b] = windows[b] /\ recent'[b] = recent[b]

\* A request that passes or is refused spends one of each bucket or leaves
\* that bucket alone.
LEMMA LimitedEffect ==
    ASSUME TypeOK, NEW first \in Buckets, NEW second, second \subseteq Buckets,
           \/ PassBoth(first, second)
           \/ RefusedByFirst(first)
           \/ RefusedBySecond(first, second)
    PROVE  \A b \in Buckets : SpendsOn(b) \/ LeavesBucket(b)
  <1> SUFFICES ASSUME NEW b \in Buckets
               PROVE  SpendsOn(b) \/ LeavesBucket(b)
    OBVIOUS
  <1>1. ASSUME NEW bs, \A c \in bs : ~Exhausted(c), Spend(bs), LetThrough(bs) \/ UNCHANGED recent
        PROVE  SpendsOn(b) \/ LeavesBucket(b)
    <2>1. windows'[b] = IF b \notin bs THEN windows[b]
                        ELSE IF windows[b].left = 0 THEN [count |-> 1, left |-> Length(b)]
                        ELSE [windows[b] EXCEPT !.count = @ + 1]
      BY <1>1 DEF Spend
    <2>2. \/ recent'[b] = recent[b]
          \/ b \in bs /\ recent'[b] = [recent[b] EXCEPT ![0] = @ + 1]
      BY <1>1 DEF LetThrough
    <2>3. CASE b \in bs
      BY <1>1, <2>1, <2>2, <2>3 DEF SpendsOn
    <2>4. CASE b \notin bs
      BY <2>1, <2>2, <2>4 DEF LeavesBucket
    <2> QED
      BY <2>3, <2>4
  <1>2. CASE PassBoth(first, second)
    BY <1>1, <1>2 DEF PassBoth
  <1>3. CASE RefusedByFirst(first)
    BY <1>3 DEF RefusedByFirst, LeavesBucket
  <1>4. CASE RefusedBySecond(first, second)
    <2>1. \A c \in {first} : ~Exhausted(c)
      BY <1>4 DEF RefusedBySecond
    <2> QED
      BY <1>1, <1>4, <2>1 DEF RefusedBySecond
  <1> QED
    BY <1>2, <1>3, <1>4

\* Every limited request is of that kind.
LEMMA LimitedSteps ==
    ASSUME TypeOK, Limited
    PROVE  /\ UNCHANGED <<conf, crashes>>
           /\ \A b \in Buckets : SpendsOn(b) \/ LeavesBucket(b)
  <1>1. PICK ip \in Ips :
            \/ \E k \in Keys \cup {NoKey} : Verify(ip, k)
            \/ \E kind \in {"signup", "login"} : SignUpOrLogin(kind, ip)
            \/ \E known \in {"none", "active", "failed"}, json \in BOOLEAN : Receipt(ip, known, json)
            \/ \E e \in Emails \cup {NoEmail} :
                   \/ Contact(ip, e) \/ RefuseReset(ip, e)
                   \/ \E ok \in BOOLEAN : RequestReset(ip, e, ok)
    BY DEF Limited
  <1>2. UNCHANGED <<conf, crashes>>
    BY <1>1 DEF Verify, SignUpOrLogin, Receipt, Contact, RefuseReset, RequestReset, startVars
  <1>3. ASSUME NEW k \in Keys \cup {NoKey}, Verify(ip, k)
        PROVE  \A b \in Buckets : SpendsOn(b) \/ LeavesBucket(b)
    <2>1. Ip("verify-ip", ip) \in Buckets /\ KeyOf(k) \subseteq Buckets
      BY BucketNames DEF IpKinds
    <2> QED
      BY <1>3, <2>1, LimitedEffect DEF Verify, CheckVerifyRateLimit
  <1>4. ASSUME NEW kind \in {"signup", "login"}, SignUpOrLogin(kind, ip)
        PROVE  \A b \in Buckets : SpendsOn(b) \/ LeavesBucket(b)
    <2>1. Ip(kind, ip) \in Buckets
      BY BucketNames DEF IpKinds
    <2> QED
      BY <1>4, <2>1, LimitedEffect DEF SignUpOrLogin, RateLimited
  <1>5. ASSUME NEW known \in {"none", "active", "failed"}, NEW json \in BOOLEAN, Receipt(ip, known, json)
        PROVE  \A b \in Buckets : SpendsOn(b) \/ LeavesBucket(b)
    <2>1. Ip("receipt-xrpl", ip) \in Buckets
      BY BucketNames DEF IpKinds
    <2>2. UNCHANGED <<windows, recent>> \/ RateLimited("receipt-xrpl", ip)
      BY <1>5 DEF Receipt
    <2>3. CASE UNCHANGED <<windows, recent>>
      BY <2>3 DEF LeavesBucket
    <2>4. CASE RateLimited("receipt-xrpl", ip)
      BY <2>1, <2>4, LimitedEffect DEF RateLimited
    <2> QED
      BY <2>2, <2>3, <2>4
  <1>6. ASSUME NEW e \in Emails \cup {NoEmail}, Contact(ip, e)
        PROVE  \A b \in Buckets : SpendsOn(b) \/ LeavesBucket(b)
    <2>1. Ip("contact-ip", ip) \in Buckets /\ EmailOf("contact-email", e) \subseteq Buckets
      BY BucketNames DEF IpKinds, EmailKinds
    <2> QED
      BY <1>6, <2>1, LimitedEffect DEF Contact
  <1>7. ASSUME NEW e \in Emails \cup {NoEmail},
               RefuseReset(ip, e) \/ \E ok \in BOOLEAN : RequestReset(ip, e, ok)
        PROVE  \A b \in Buckets : SpendsOn(b) \/ LeavesBucket(b)
    <2>1. Ip("reset-ip", ip) \in Buckets /\ EmailOf("reset-email", e) \subseteq Buckets
      BY BucketNames DEF IpKinds, EmailKinds
    <2> QED
      BY <1>7, <2>1, LimitedEffect DEF RefuseReset, RequestReset
  <1> QED
    BY <1>1, <1>2, <1>3, <1>4, <1>5, <1>6, <1>7

\* A tick: the requests as old as a length leave, and a window that ends
\* takes its count with it.
LEMMA TickSpan ==
    ASSUME TypeOK, Tick, NEW b \in Buckets, SpanOK(b)
    PROVE  SpanOK(b)'
  <1> DEFINE f == recent[b]
             g == recent'[b]
             l == Length(b)
             used == (1 + crashes) * Cap(b)
             count == windows[b].count
  <1>1. /\ count \in Nat /\ windows[b].left \in 0..Hour /\ f \in [Ages -> Nat] /\ Total(f) \in Nat
        /\ used \in Nat /\ Cap(b) <= used /\ l \in 1..Hour /\ windows[b] \in Window
    BY SpanType
  <1>2. /\ count <= Cap(b) /\ Total(f) <= count + used /\ Cap(b) \in Nat
        /\ windows[b].left = 0 => count = 0
        /\ windows[b].left > 0 => Total(Younger(f, l - windows[b].left)) <= count
    BY CapType DEF SpanOK
  <1>3. UNCHANGED <<conf, crashes>>
    BY DEF Tick, startVars
  <1>4. /\ windows'[b] = IF windows[b].left <= 1 THEN NoWindow
                         ELSE [windows[b] EXCEPT !.left = @ - 1]
        /\ g = Aged(f, l)
    BY DEF Tick, Aged, Ages
  <1>5. CASE windows[b].left <= 1
    <2>1. windows'[b].count = 0 /\ windows'[b].left = 0
      BY <1>4, <1>5 DEF NoWindow
    <2>2. l - 1 \in Int /\ 0 \in Int
      BY <1>1
    <2>3. /\ Total(g) \in Nat /\ Total(g) <= Total(f) /\ Total(g) <= Total(Younger(f, l - 1))
          /\ Total(Younger(f, l - 1)) \in Nat
      <3>1. Aged(f, l) \in [Ages -> Nat] /\ Total(Aged(f, l)) \in Nat
        <4>1. /\ Aged(f, l) \in [Ages -> Nat]
              /\ Total(Younger(Aged(f, l), 0 + 1)) <= Total(Younger(f, 0))
          <5> HIDE DEF f, l
          <5> QED
            BY <1>1, <2>2, AgedTotals
        <4> QED
          BY <4>1, AgesType, TotalType
      <3>2. /\ Total(Aged(f, l)) <= Total(f) /\ Total(Aged(f, l)) <= Total(Younger(f, l - 1))
            /\ Total(Younger(Aged(f, l), 0 + 1)) <= Total(Younger(f, 0))
        <4> HIDE DEF f, l
        <4> QED
          BY <1>1, <2>2, AgedTotals
      <3>3. Total(Younger(f, l - 1)) \in Nat
        <4> HIDE DEF f, l
        <4> QED
          BY <1>1, <2>2, YoungerIs
      <3> QED
        BY <1>4, <3>1, <3>2, <3>3
    <2>4. Total(g) <= used
      <3>1. CASE windows[b].left = 0
        <4> HIDE DEF f, g, l, used, count
        <4> QED
          BY <1>1, <1>2, <2>3, <3>1
      <3>2. CASE windows[b].left = 1
        <4>1. Total(Younger(f, l - 1)) <= count
          BY <1>2, <3>2
        <4> HIDE DEF f, g, l, used, count
        <4> QED
          BY <1>1, <1>2, <2>3, <4>1
      <3> QED
        BY <1>1, <1>5, <3>1, <3>2
    <2>5. /\ windows'[b].count <= Cap(b) /\ ~(windows'[b].left > 0)
          /\ Total(recent'[b]) <= windows'[b].count + (1 + crashes') * Cap(b)
      BY <1>1, <1>2, <1>3, <2>1, <2>3, <2>4
    <2> QED
      BY <1>3, <2>1, <2>5, SpanAfter
  <1>6. CASE windows[b].left > 1
    <2>1. windows'[b].count = count /\ windows'[b].left = windows[b].left - 1
      BY <1>1, <1>4, <1>6 DEF Window
    <2> DEFINE m == l - windows[b].left
    <2>2. m \in Int /\ m + 1 = l - windows'[b].left /\ windows'[b].left # 0
      BY <1>1, <1>6, <2>1
    <2>3. /\ Aged(f, l) \in [Ages -> Nat] /\ Total(Aged(f, l)) <= Total(f)
          /\ Total(Younger(Aged(f, l), m + 1)) <= Total(Younger(f, m))
      <3> HIDE DEF f, l, m
      <3> QED
        BY <1>1, <2>2, AgedTotals
    <2>4. /\ Total(Aged(f, l)) \in Nat /\ Total(Younger(f, m)) \in Nat
          /\ Total(Younger(Aged(f, l), m + 1)) \in Nat
      <3>1. m + 1 \in Int
        BY <2>2
      <3> HIDE DEF f, l, m
      <3> QED
        BY <1>1, <2>2, <2>3, <3>1, YoungerIs
    <2>5. Total(Younger(f, m)) <= count
      BY <1>1, <1>2, <1>6
    <2>6. Total(Younger(g, m + 1)) <= count /\ Total(g) <= count + used
      <3> HIDE DEF f, g, l, m, used, count
      <3> QED
        BY <1>1, <1>2, <1>4, <2>3, <2>4, <2>5
    <2>7. Total(Younger(recent'[b], Length(b) - windows'[b].left)) <= windows'[b].count
      BY <2>1, <2>2, <2>6
    <2>8. Total(recent'[b]) <= windows'[b].count + (1 + crashes') * Cap(b)
      BY <1>3, <2>1, <2>6
    <2>9. windows'[b].count <= Cap(b)
      BY <1>2, <2>1
    <2> QED
      BY <1>3, <2>2, <2>7, <2>8, <2>9, SpanAfter
  <1> QED
    BY <1>1, <1>5, <1>6

\* A crash forgets the window; what it had let through is one more of them.
LEMMA CrashSpan ==
    ASSUME TypeOK, Crash, NEW b \in Buckets, SpanOK(b)
    PROVE  SpanOK(b)'
  <1> DEFINE used == (1 + crashes) * Cap(b)
  <1>1. /\ windows[b].count \in Nat /\ Total(recent[b]) \in Nat /\ used \in Nat /\ crashes \in Nat
        /\ Cap(b) \in Nat
    BY SpanType, CapType
  <1>2. windows[b].count <= Cap(b) /\ Total(recent[b]) <= windows[b].count + used
    BY DEF SpanOK
  <1>3. /\ windows'[b].count = 0 /\ windows'[b].left = 0 /\ recent'[b] = recent[b]
        /\ crashes' = crashes + 1 /\ UNCHANGED conf
    BY DEF Crash, Forgotten, NoWindow
  <1>4. (1 + crashes') * Cap(b) = used + Cap(b)
    <2>1. (1 + (crashes + 1)) * Cap(b) = (1 + crashes) * Cap(b) + Cap(b)
      BY <1>1
    <2> QED
      BY <1>3, <2>1
  <1> HIDE DEF used
  <1>5. Total(recent'[b]) <= windows'[b].count + (1 + crashes') * Cap(b)
    BY <1>1, <1>2, <1>3, <1>4
  <1>6. windows'[b].count <= Cap(b) /\ ~(windows'[b].left > 0)
    BY <1>1, <1>3
  <1> QED
    BY <1>3, <1>5, <1>6, SpanAfter

\* Every step keeps all spans in order.
LEMMA NextSpans == TypeOK /\ Spans /\ [Next]_vars => Spans'
  <1> SUFFICES ASSUME TypeOK, Spans, [Next]_vars, NEW b \in Buckets
               PROVE  SpanOK(b)'
    BY DEF Spans
  <1>1. SpanOK(b)
    BY DEF Spans
  <1>2. CASE UNCHANGED <<conf, crashes, windows, recent>>
    BY <1>1, <1>2, SameSpan
  <1>3. CASE Limited
    <2>1. UNCHANGED <<conf, crashes>> /\ (SpendsOn(b) \/ LeavesBucket(b))
      BY <1>3, LimitedSteps
    <2>2. CASE SpendsOn(b)
      BY <1>1, <2>1, <2>2, SpendSpan DEF SpendsOn
    <2>3. CASE LeavesBucket(b)
      BY <1>1, <2>1, <2>3, SameSpan DEF LeavesBucket
    <2> QED
      BY <2>1, <2>2, <2>3
  <1>4. CASE Tick
    BY <1>1, <1>4, TickSpan
  <1>5. CASE Crash
    BY <1>1, <1>5, CrashSpan
  <1>6. CASE Start \/ Keyed \/ \E t \in 1..MaxTokens, ok \in BOOLEAN : ResetPassword(t, ok)
    <2>1. UNCHANGED <<conf, crashes, windows, recent>>
      BY <1>6 DEF Start, PassCheck, RefuseToStart, StartAgain, Listen, Keyed, RequireApiKey,
                  KeyRefused, FireTimer, ResetPassword, startVars, vars
    <2> QED
      BY <1>2, <2>1
  <1>7. CASE UNCHANGED vars
    BY <1>2, <1>7 DEF vars, startVars
  <1> QED
    BY <1>3, <1>4, <1>5, <1>6, <1>7 DEF Next

\* However the requests of a client are spread over routes, MCP and the edges
\* of windows, a span of one window's length lets through at most two windows
\* of them, and one more for each restart.
THEOREM SpansBounded == Spec => []SpanBounded
  <1>1. Init => TypeOK /\ Spans
    <2> SUFFICES ASSUME Init, NEW b \in Buckets
                 PROVE  SpanOK(b)
      BY InitType DEF Spans
    <2>1. TypeOK
      BY InitType
    <2>2. windows[b].count = 0 /\ windows[b].left = 0
      BY DEF Init, Forgotten, NoWindow
    <2>3. recent[b] = [n \in Ages |-> 0]
      BY DEF Init, NoRequest, Ages
    <2>4. Total(recent[b]) = 0
      <3>1. recent[b] \in [Ages -> Nat] /\ \A n \in Ages : recent[b][n] = 0
        BY <2>3
      <3> QED
        BY <3>1, TotalZero
    <2>5. Cap(b) \in Nat /\ (1 + crashes) * Cap(b) \in Nat
      BY <2>1, CapType, SpanType
    <2>6. Total(recent[b]) <= windows[b].count + (1 + crashes) * Cap(b)
      BY <2>2, <2>4, <2>5
    <2>7. windows[b].count <= Cap(b) /\ ~(windows[b].left > 0)
      BY <2>2, <2>5
    <2> QED
      BY <2>2, <2>6, <2>7 DEF SpanOK
  <1>2. TypeOK /\ Spans => SpanBounded
    <2> SUFFICES ASSUME TypeOK, Spans, NEW b \in Buckets
                 PROVE  Total(recent[b]) <= (2 + crashes) * Cap(b)
      BY DEF SpanBounded, Cap
    <2> DEFINE used == (1 + crashes) * Cap(b)
    <2>1. /\ windows[b].count \in Nat /\ Total(recent[b]) \in Nat /\ used \in Nat /\ crashes \in Nat
          /\ Cap(b) \in Nat
      BY SpanType, CapType
    <2>2. windows[b].count <= Cap(b) /\ Total(recent[b]) <= windows[b].count + used
      BY DEF Spans, SpanOK
    <2>3. (2 + crashes) * Cap(b) = used + Cap(b)
      BY <2>1
    <2> HIDE DEF used
    <2> QED
      BY <2>1, <2>2, <2>3
  <1>3. (TypeOK /\ Spans) /\ [Next]_vars => (TypeOK /\ Spans)'
    BY NextType, NextSpans
  <1> QED
    BY <1>1, <1>2, <1>3, PTL DEF Spec
=============================================================================
