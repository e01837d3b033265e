------------------------- MODULE RequestGatesProofs -------------------------
(***************************************************************************)
(* Theorems about RequestGates, for any users, hosts, proxies, headers,    *)
(* configurations and number of requests.                                  *)
(***************************************************************************)
EXTENDS RequestGates, SequenceTheorems, FiniteSetTheorems, TLAPS

\* What is assumed of the trusted hops: no more than there are proxies; exactly as many,
\* and a limit per client.
Covered(s) == s.hops <= Len(s.proxies)
Exact(s) == ~s.global /\ s.hops = Len(s.proxies)

-----------------------------------------------------------------------------
(* Sequences.                                                              *)

\* What is left of a sequence without its last element.
LEMMA AllButLast ==
  ASSUME NEW S, NEW q \in Seq(S), q # <<>>
  PROVE  /\ Len(q) \in Nat \ {0}
         /\ SubSeq(q, 1, Len(q) - 1) \in Seq(S)
         /\ Len(SubSeq(q, 1, Len(q) - 1)) = Len(q) - 1
         /\ \A i \in 1..(Len(q) - 1) : SubSeq(q, 1, Len(q) - 1)[i] = q[i]
  <1>1. PICK n \in Nat : Len(q) = n + 1
    <2>1. Len(q) \in Nat /\ Len(q) # 0
      OBVIOUS
    <2>2. Len(q) - 1 \in Nat /\ Len(q) = (Len(q) - 1) + 1
      BY <2>1
    <2>3. QED
      BY <2>2, Zenon
  <1>2. \A i \in 1..n : q[i] \in S
    BY <1>1
  <1>3. /\ SubSeq(q, 1, n) \in Seq(S)
        /\ Len(SubSeq(q, 1, n)) = IF 1 <= n THEN n - 1 + 1 ELSE 0
        /\ \A i \in 1..(n - 1 + 1) : SubSeq(q, 1, n)[i] = q[1 + i - 1]
    <2>1. 1 \in Int /\ n \in Int
      OBVIOUS
    <2>2. QED
      BY <1>2, <2>1, SubSeqProperties
  <1>4. Len(SubSeq(q, 1, n)) = n /\ \A i \in 1..n : SubSeq(q, 1, n)[i] = q[i]
    BY <1>3
  <1>5. Len(q) - 1 = n /\ Len(q) \in Nat \ {0}
    BY <1>1
  <1>6. QED
    BY <1>3, <1>4, <1>5, Zenon

-----------------------------------------------------------------------------
(* The client's identity.                                                  *)

USE DEF Configuration, Token, Origin

\* The entry that the outermost trusted proxy was called from does not depend on what
\* the caller put in front of it (server/middleware.py:57-63).
LEMMA VerifiedIsTrusted ==
  ASSUME NEW header \in Seq(Address), NEW a \in Address, NEW ps \in Seq(Address),
         NEW hops \in 1..(Len(ps) + 1)
  PROVE  /\ header \o <<a>> \o ps # <<>>
         /\ VerifiedHop(header \o <<a>> \o ps, hops)
              = IF hops = Len(ps) + 1 THEN a ELSE ps[Len(ps) - hops + 1]
  <1> DEFINE xff == header \o <<a>> \o ps
  <1>1. /\ xff \in Seq(Address) /\ Len(xff) = Len(header) + 1 + Len(ps)
        /\ Len(header) \in Nat /\ Len(ps) \in Nat
    OBVIOUS
  <1>2. xff # <<>>
    BY <1>1
  <1>3. Smaller(Len(xff), hops) = hops
    BY <1>1 DEF Smaller
  <1>4. VerifiedHop(xff, hops) = xff[Len(header) + (Len(ps) - hops + 2)]
    <2>1. VerifiedHop(xff, hops) = xff[Len(xff) - hops + 1]
      BY <1>3, Zenon DEF VerifiedHop
    <2>2. Len(xff) - hops + 1 = Len(header) + (Len(ps) - hops + 2)
      BY <1>1
    <2>3. QED
      BY <2>1, <2>2, Zenon
  <1>5. \A i \in 1..(Len(ps) + 1) :
          xff[Len(header) + i] = IF i = 1 THEN a ELSE ps[i - 1]
    BY <1>1
  <1>6. xff[Len(header) + (Len(ps) - hops + 2)]
          = IF hops = Len(ps) + 1 THEN a ELSE ps[Len(ps) - hops + 1]
    BY <1>1, <1>5
  <1>7. QED
    BY <1>1, <1>2, <1>4, <1>6

LEMMA ForwardedForTyped ==
  ASSUME NEW o \in Origin, NEW s \in Configuration
  PROVE  /\ ForwardedFor(o, s) \in Seq(Address)
         /\ Direct(o, s) \in Address
  BY NetworkAssumption DEF ForwardedFor, Direct

\* The bucket of an anonymous HTTP request is that of its host, or of a proxy.
HostBucket(a, s) ==
  IF s.hops = 0 THEN IF s.proxies = <<>> THEN a ELSE s.proxies[Len(s.proxies)]
  ELSE IF s.hops = Len(s.proxies) THEN a
  ELSE s.proxies[Len(s.proxies) - s.hops]

LEMMA AnonymousBucket ==
  ASSUME NEW o \in Origin, NEW s \in Configuration, Covered(s), ~HasSubject(o), ~s.stdio
  PROVE  ResolveClientId(o, s) = <<"ip", HostBucket(o.address, s)>>
  <1>1. CASE s.hops = 0
    BY <1>1 DEF ResolveClientId, HostBucket, Direct
  <1>2. CASE s.hops > 0
    <2> DEFINE ps == SubSeq(s.proxies, 1, Len(s.proxies) - 1)
    <2>1. s.proxies # <<>> /\ Len(s.proxies) \in Nat \ {0} /\ s.hops \in 1..Len(s.proxies)
      BY <1>2, NetworkAssumption DEF Covered
    <2>2. /\ ps \in Seq(Address) /\ Len(ps) = Len(s.proxies) - 1
          /\ \A i \in 1..Len(ps) : ps[i] = s.proxies[i]
      BY <2>1, NetworkAssumption, AllButLast
    <2> HIDE DEF ps
    <2>3. /\ ForwardedFor(o, s) # <<>>
          /\ VerifiedHop(ForwardedFor(o, s), s.hops)
               = IF s.hops = Len(ps) + 1 THEN o.address ELSE ps[Len(ps) - s.hops + 1]
      <3>1. o.header \in Seq(Address) /\ o.address \in Address
        BY NetworkAssumption
      <3>2. s.hops \in 1..(Len(ps) + 1)
        BY <2>1, <2>2
      <3>3. ForwardedFor(o, s) = o.header \o <<o.address>> \o ps
        BY <2>1 DEF ForwardedFor, ps
      <3>4. /\ o.header \o <<o.address>> \o ps # <<>>
            /\ VerifiedHop(o.header \o <<o.address>> \o ps, s.hops)
                 = IF s.hops = Len(ps) + 1 THEN o.address ELSE ps[Len(ps) - s.hops + 1]
        BY <2>2, <3>1, <3>2, VerifiedIsTrusted
      <3>5. QED
        BY <3>3, <3>4, Zenon
    <2>4. VerifiedHop(ForwardedFor(o, s), s.hops) = HostBucket(o.address, s)
      <3>1. CASE s.hops = Len(s.proxies)
        BY <2>1, <2>2, <2>3, <3>1 DEF HostBucket
      <3>2. CASE s.hops # Len(s.proxies)
        <4> DEFINE i == Len(s.proxies) - s.hops
        <4>1. Len(ps) - s.hops + 1 = i /\ i \in 1..Len(ps) /\ s.hops # Len(ps) + 1
          BY <2>1, <2>2, <3>2
        <4>2. VerifiedHop(ForwardedFor(o, s), s.hops) = s.proxies[i]
          BY <2>2, <2>3, <4>1
        <4>3. QED
          BY <1>2, <3>2, <4>2 DEF HostBucket
      <3>3. QED
        BY <3>1, <3>2
    <2>5. QED
      BY <1>2, <2>3, <2>4 DEF ResolveClientId
  <1>3. QED
    BY <1>1, <1>2

\* A principal has one bucket, wherever it calls from and whatever it sends.
LEMMA OneBucket ==
  ASSUME NEW s \in Configuration, Covered(s), NEW o \in Origin, NEW q \in Origin,
         PrincipalOf(o, s) = PrincipalOf(q, s)
  PROVE  BucketOf(o, s) = BucketOf(q, s)
  <1>1. HasSubject(o) <=> HasSubject(q)
    BY DEF PrincipalOf
  <1>2. CASE HasSubject(o)
    BY <1>1, <1>2 DEF PrincipalOf, BucketOf, ResolveClientId
  <1>3. CASE ~HasSubject(o) /\ s.stdio
    BY <1>1, <1>3 DEF PrincipalOf, BucketOf, ResolveClientId
  <1>4. CASE ~HasSubject(o) /\ ~s.stdio
    <2>1. o.address = q.address
      BY <1>1, <1>4 DEF PrincipalOf
    <2>2. QED
      BY <1>1, <1>4, <2>1, AnonymousBucket DEF BucketOf
  <1>5. QED
    BY <1>2, <1>3, <1>4

\* A user has one bucket wherever it calls from, whatever hops are trusted.
LEMMA UserBucket ==
  ASSUME NEW s, NEW o, NEW q, PrincipalOf(o, s) = PrincipalOf(q, s), PrincipalOf(o, s)[1] = "user"
  PROVE  BucketOf(o, s) = BucketOf(q, s)
  <1>1. HasSubject(o) /\ HasSubject(q) /\ o.token.sub = q.token.sub
    BY DEF PrincipalOf
  <1>2. QED
    BY <1>1 DEF BucketOf, ResolveClientId

\* Where the limit is per client and exactly the proxies are trusted, a bucket has one
\* principal.
LEMMA OnePrincipal ==
  ASSUME NEW s \in Configuration, Exact(s), NEW o \in Origin, NEW q \in Origin,
         BucketOf(o, s) = BucketOf(q, s)
  PROVE  PrincipalOf(o, s) = PrincipalOf(q, s)
  <1>1. Covered(s) /\ ResolveClientId(o, s) = ResolveClientId(q, s)
    BY NetworkAssumption DEF Exact, Covered, BucketOf
  <1>2. \A x \in Origin : ~HasSubject(x) => ResolveClientId(x, s)[1] = "ip"
    BY DEF ResolveClientId
  <1>3. \A x \in Origin : HasSubject(x) => ResolveClientId(x, s) = <<"sub", x.token.sub>>
    BY DEF ResolveClientId
  <1>4. HasSubject(o) <=> HasSubject(q)
    BY <1>1, <1>2, <1>3
  <1>5. CASE HasSubject(o)
    BY <1>1, <1>3, <1>4, <1>5 DEF PrincipalOf
  <1>6. CASE ~HasSubject(o) /\ s.stdio
    BY <1>4, <1>6 DEF PrincipalOf
  <1>7. CASE ~HasSubject(o) /\ ~s.stdio
    <2>1. <<"ip", HostBucket(o.address, s)>> = <<"ip", HostBucket(q.address, s)>>
      BY <1>1, <1>4, <1>7, AnonymousBucket
    <2>2. \A a \in Address : HostBucket(a, s) = a
      BY NetworkAssumption DEF Exact, HostBucket
    <2>3. QED
      BY <1>4, <1>7, <2>1, <2>2 DEF PrincipalOf
  <1>8. QED
    BY <1>5, <1>6, <1>7

\* Every request has a bucket and a principal.
LEMMA KeysTyped ==
  ASSUME NEW s \in Configuration, NEW o \in Origin
  PROVE  /\ BucketOf(o, s) \in ClientId /\ PrincipalOf(o, s) \in Principal
         /\ AccountOf(o, s) \in Account
  <1>1. HasSubject(o) => o.token.sub \in Subject
    BY ClaimsAssumption DEF HasSubject
  <1>2. PrincipalOf(o, s) \in Principal
    BY <1>1 DEF PrincipalOf, Principal
  <1>3. ResolveClientId(o, s) \in ClientId
    <2>1. CASE HasSubject(o)
      BY <1>1, <2>1 DEF ResolveClientId, ClientId
    <2>2. CASE ~HasSubject(o)
      <3>1. \A a \in Address \cup {Stdio} : <<"ip", a>> \in ClientId
        BY DEF ClientId
      <3>2. ForwardedFor(o, s) # <<>> /\ s.hops > 0
              => VerifiedHop(ForwardedFor(o, s), s.hops) \in Address
        <4> SUFFICES ASSUME ForwardedFor(o, s) # <<>>, s.hops > 0
                     PROVE  VerifiedHop(ForwardedFor(o, s), s.hops) \in Address
          OBVIOUS
        <4> DEFINE xff == ForwardedFor(o, s)
        <4>1. xff \in Seq(Address) /\ Len(xff) \in Nat \ {0} /\ s.hops \in Nat \ {0}
          BY ForwardedForTyped
        <4> HIDE DEF xff
        <4>2. Len(xff) - Smaller(Len(xff), s.hops) + 1 \in 1..Len(xff)
          BY <4>1 DEF Smaller
        <4>3. VerifiedHop(xff, s.hops) \in Address
          BY <4>1, <4>2 DEF VerifiedHop
        <4>4. QED
          BY <4>3 DEF xff
      <3>3. QED
        BY <2>2, <3>1, <3>2, ForwardedForTyped DEF ResolveClientId
    <2>3. QED
      BY <2>1, <2>2
  <1>4. QED
    BY <1>2, <1>3 DEF BucketOf, ClientId, AccountOf, Account

LEMMA SettingsTyped ==
  ASSUME NEW s \in Configuration
  PROVE  /\ s.limiter \in BOOLEAN /\ s.gate \in BOOLEAN /\ s.stdio \in BOOLEAN
         /\ (s.auth = "entra-multi" /\ s.tenants # {}) \in BOOLEAN
         /\ (s.gate /\ s.roles # {}) \in BOOLEAN
  OBVIOUS

HIDE DEF Configuration, Token, Origin

-----------------------------------------------------------------------------
(* The chain.                                                              *)

Gate == {"limiter", "tenants", "roles"}

LEMMA OnlyTyped ==
  ASSUME NEW n \in Gate, NEW c \in BOOLEAN
  PROVE  /\ Only(n, c) \in Seq(Gate) /\ Len(Only(n, c)) \in 0..1
         /\ c => Len(Only(n, c)) = 1 /\ Only(n, c)[1] = n
  <1>1. CASE c
    BY <1>1 DEF Only
  <1>2. CASE ~c
    BY <1>2 DEF Only
  <1>3. QED
    BY <1>1, <1>2

\* Where the elements of three sequences are in the one they are joined to.
LEMMA Joined ==
  ASSUME NEW S, NEW u \in Seq(S), NEW v \in Seq(S), NEW w \in Seq(S)
  PROVE  /\ Len(u) \in Nat /\ Len(v) \in Nat /\ Len(w) \in Nat
         /\ Len(u \o v \o w) = Len(u) + Len(v) + Len(w)
         /\ DOMAIN (u \o v \o w) = 1..Len(u \o v \o w)
         /\ \A i \in 1..Len(v) : (u \o v \o w)[Len(u) + i] = v[i]
         /\ \A i \in 1..Len(w) : (u \o v \o w)[Len(u) + Len(v) + i] = w[i]
  <1> DEFINE uv == u \o v
  <1>1. /\ uv \in Seq(S) /\ Len(uv) = Len(u) + Len(v)
        /\ Len(u) \in Nat /\ Len(v) \in Nat /\ Len(w) \in Nat
        /\ \A i \in 1..Len(v) : uv[Len(u) + i] = v[i]
    OBVIOUS
  <1> HIDE DEF uv
  <1>2. /\ Len(uv \o w) = Len(uv) + Len(w) /\ DOMAIN (uv \o w) = 1..Len(uv \o w)
        /\ \A i \in 1..Len(uv) : (uv \o w)[i] = uv[i]
        /\ \A i \in 1..Len(w) : (uv \o w)[Len(uv) + i] = w[i]
    <2>1. uv \o w \in Seq(S) /\ Len(uv \o w) = Len(uv) + Len(w)
      BY <1>1, ConcatProperties
    <2>2. DOMAIN (uv \o w) = 1..Len(uv \o w)
      BY <2>1, LenProperties
    <2>3. \A i \in 1..(Len(uv) + Len(w)) :
            (uv \o w)[i] = IF i <= Len(uv) THEN uv[i] ELSE w[i - Len(uv)]
      BY <1>1, ConcatProperties
    <2>4. Len(uv) \in Nat
      BY <1>1
    <2>5. \A i \in 1..Len(uv) : (uv \o w)[i] = uv[i]
      BY <1>1, <2>3, <2>4
    <2>6. ASSUME NEW i \in 1..Len(w) PROVE (uv \o w)[Len(uv) + i] = w[i]
      <3>1. /\ Len(uv) + i \in 1..(Len(uv) + Len(w)) /\ ~(Len(uv) + i <= Len(uv))
            /\ (Len(uv) + i) - Len(uv) = i
        BY <1>1, <2>4
      <3>2. QED
        BY <2>3, <3>1
    <2>7. QED
      BY <2>1, <2>2, <2>5, <2>6
  <1>3. \A i \in 1..Len(v) : (uv \o w)[Len(u) + i] = v[i]
    <2> SUFFICES ASSUME NEW i \in 1..Len(v) PROVE (uv \o w)[Len(u) + i] = v[i]
      OBVIOUS
    <2>1. Len(u) + i \in 1..Len(uv)
      BY <1>1
    <2>2. QED
      BY <1>1, <1>2, <2>1
  <1>4. QED
    BY <1>1, <1>2, <1>3 DEF uv

\* A chain has at most three places, and each gate that is configured has one.
LEMMA ChainShape ==
  ASSUME NEW s \in Configuration
  PROVE  /\ Len(Chain(s)) \in 0..3
         /\ DOMAIN Chain(s) = 1..Len(Chain(s))
         /\ s.auth = "entra-multi" /\ s.tenants # {} =>
              \E j \in DOMAIN Chain(s) : Chain(s)[j] = "tenants"
         /\ s.gate /\ s.roles # {} => \E j \in DOMAIN Chain(s) : Chain(s)[j] = "roles"
  <1> DEFINE T == s.auth = "entra-multi" /\ s.tenants # {}
             R == s.gate /\ s.roles # {}
             u == Only("limiter", s.limiter)
             v == Only("tenants", T)
             w == Only("roles", R)
  <1>1. /\ u \in Seq(Gate) /\ Len(u) \in 0..1
        /\ v \in Seq(Gate) /\ Len(v) \in 0..1 /\ (T => Len(v) = 1 /\ v[1] = "tenants")
        /\ w \in Seq(Gate) /\ Len(w) \in 0..1 /\ (R => Len(w) = 1 /\ w[1] = "roles")
    <2>1. s.limiter \in BOOLEAN /\ T \in BOOLEAN /\ R \in BOOLEAN
      BY SettingsTyped
    <2> HIDE DEF T, R
    <2>2. "limiter" \in Gate /\ "tenants" \in Gate /\ "roles" \in Gate
      BY DEF Gate
    <2>3. QED
      BY <2>1, <2>2, OnlyTyped
  <1>2. Chain(s) = u \o v \o w
    BY DEF Chain
  <1> HIDE DEF T, R, u, v, w
  <1> DEFINE all == u \o v \o w
  <1>3. /\ Len(all) = Len(u) + Len(v) + Len(w) /\ DOMAIN all = 1..Len(all)
        /\ \A i \in 1..Len(v) : all[Len(u) + i] = v[i]
        /\ \A i \in 1..Len(w) : all[Len(u) + Len(v) + i] = w[i]
    BY <1>1, Joined
  <1> HIDE DEF all
  <1>4. Len(all) \in 0..3
    BY <1>1, <1>3
  <1>5. T => \E j \in DOMAIN all : all[j] = "tenants"
    <2> SUFFICES ASSUME T PROVE Len(u) + 1 \in DOMAIN all /\ all[Len(u) + 1] = "tenants"
      OBVIOUS
    <2> DEFINE k == Len(u) m == Len(v) n == Len(w)
    <2>3. m = 1 /\ k \in 0..1 /\ n \in 0..1 /\ Len(all) = k + m + n
      BY <1>1, <1>3
    <2>1. 1 \in 1..Len(v) /\ Len(u) + 1 \in 1..Len(all)
      <3>1. 1 \in 1..m /\ k + 1 \in 1..(k + m + n)
        <4> HIDE DEF k, m, n
        <4>1. QED BY <2>3
      <3>2. QED
        BY <2>3, <3>1
    <2>2. QED
      BY <1>1, <1>3, <2>1
  <1>6. R => \E j \in DOMAIN all : all[j] = "roles"
    <2> SUFFICES ASSUME R
                 PROVE  Len(u) + Len(v) + 1 \in DOMAIN all /\ all[Len(u) + Len(v) + 1] = "roles"
      OBVIOUS
    <2>1. 1 \in 1..Len(w) /\ Len(u) + Len(v) + 1 \in 1..Len(all)
      BY <1>1, <1>3
    <2>2. QED
      BY <1>1, <1>3, <2>1
  <1>7. QED
    BY <1>2, <1>3, <1>4, <1>5, <1>6, Zenon DEF T, R, all

-----------------------------------------------------------------------------
(* Types.                                                                  *)

LEMMA TypeOKInit == Init => TypeOK
  BY BucketAssumption DEF Init, TypeOK

LEMMA TypeOKNext == TypeOK /\ [Next]_vars => TypeOK'
  <1> SUFFICES ASSUME TypeOK, [Next]_vars PROVE TypeOK'
    OBVIOUS
  <1>1. settings \in Configuration /\ \A r \in Request : origin[r] \in Origin
    BY SettingsAssumption DEF TypeOK
  <1>2. \A r \in Request : /\ BucketOf(origin[r], settings) \in ClientId
                           /\ AccountOf(origin[r], settings) \in Account
    BY <1>1, KeysTyped
  <1> DEFINE Place == 0..4
             Outcome == {"none", "limited", "forbidden", "dispatched"}
  <1>3. ASSUME NEW r \in Request, NEW name, Facing(r, name), CallNext(r)
        PROVE  at' \in [Request -> Place] /\ outcome' \in [Request -> Outcome]
    <2>1. at[r] + 1 \in Place
      <3>1. at[r] \in DOMAIN Chain(settings)
        BY <1>3 DEF Facing
      <3>2. Len(Chain(settings)) \in 0..3 /\ DOMAIN Chain(settings) = 1..Len(Chain(settings))
        BY <1>1, ChainShape
      <3>3. QED
        BY <3>1, <3>2
    <2>2. QED
      BY <1>3, <2>1 DEF CallNext, TypeOK
  <1>12. ASSUME NEW r \in Request, NEW o \in Outcome, End(r, o)
        PROVE  at' \in [Request -> Place] /\ outcome' \in [Request -> Outcome]
    BY <1>12 DEF End, TypeOK
  <1>4. ASSUME NEW r \in Request, Arrive(r) PROVE TypeOK'
    BY <1>4 DEF Arrive, TypeOK
  <1>5. ASSUME NEW r \in Request, RateLimit(r) PROVE TypeOK'
    <2>1. bucket' \in [ClientId -> 0..Burst] /\ charged' \in [Account -> Nat]
      BY <1>2, <1>5, BucketAssumption DEF RateLimit, TypeOK
    <2>2. at' \in [Request -> Place] /\ outcome' \in [Request -> Outcome]
      <3>1. Facing(r, "limiter") /\ (CallNext(r) \/ End(r, "limited"))
        BY <1>5 DEF RateLimit
      <3>2. QED
        BY <1>3, <1>12, <3>1
    <2>3. QED
      BY <1>5, <2>1, <2>2 DEF RateLimit, TypeOK
  <1>6. ASSUME NEW r \in Request, CheckTenant(r) PROVE TypeOK'
    <2>1. Facing(r, "tenants") /\ (CallNext(r) \/ End(r, "forbidden"))
      BY <1>6 DEF CheckTenant
    <2>2. at' \in [Request -> Place] /\ outcome' \in [Request -> Outcome]
      BY <1>3, <1>12, <2>1
    <2>3. QED
      BY <1>6, <2>2 DEF CheckTenant, TypeOK
  <1>7. ASSUME NEW r \in Request, CheckRoles(r) PROVE TypeOK'
    <2>1. Facing(r, "roles") /\ (CallNext(r) \/ End(r, "forbidden"))
      BY <1>7 DEF CheckRoles
    <2>2. at' \in [Request -> Place] /\ outcome' \in [Request -> Outcome]
      BY <1>3, <1>12, <2>1
    <2>3. QED
      BY <1>7, <2>2 DEF CheckRoles, TypeOK
  <1>8. ASSUME NEW r \in Request, Dispatch(r) PROVE TypeOK'
    BY <1>8 DEF Dispatch, End, TypeOK
  <1>9. ASSUME Tick PROVE TypeOK'
    <2>1. \A i \in ClientId : Smaller(Burst, bucket[i] + Refill) \in 0..Burst
      BY BucketAssumption DEF Smaller, TypeOK
    <2>2. QED
      BY <1>9, <2>1, BucketAssumption DEF Tick, TypeOK
  <1>10. CASE UNCHANGED vars
    BY <1>10 DEF vars, TypeOK
  <1>11. QED
    BY <1>4, <1>5, <1>6, <1>7, <1>8, <1>9, <1>10 DEF Next

\* Every state has the types that the model declares: no bucket holds less than nothing
\* or more than its capacity (server/middleware.py:114-119).
THEOREM TypeCorrect == Spec => []TypeOK
  BY TypeOKInit, TypeOKNext, PTL DEF Spec

-----------------------------------------------------------------------------
(* Budgets.                                                                *)

\* What the limiter keeps: what a principal has been charged of a bucket and what the
\* bucket holds are at most what was given, and nothing is charged to an account that no
\* request can have.
Conserved ==
  /\ \A o \in Origin :
       charged[AccountOf(o, settings)] + bucket[BucketOf(o, settings)] <= Burst + Refill * clock
  /\ \A a \in Account :
       (\A o \in Origin : AccountOf(o, settings) # a) => charged[a] = 0

\* What it keeps where exactly the proxies are trusted: only its own principal empties a
\* bucket.
OwnUse ==
  Exact(settings) =>
    /\ \A o \in Origin :
         bucket[BucketOf(o, settings)] + charged[AccountOf(o, settings)] >= Burst
    /\ \A r \in Request :
         outcome[r] = "limited" => charged[AccountOf(origin[r], settings)] >= Burst

BudgetInv == TypeOK /\ Conserved /\ OwnUse

LEMMA KeysInState ==
  ASSUME TypeOK
  PROVE  /\ settings \in Configuration
         /\ \A r \in Request : origin[r] \in Origin
         /\ \A o \in Origin : /\ BucketOf(o, settings) \in ClientId
                              /\ AccountOf(o, settings) \in Account
         /\ \A i \in ClientId : bucket[i] \in 0..Burst
         /\ \A a \in Account : charged[a] \in Nat
         /\ Burst \in Nat /\ Refill \in Nat /\ clock \in Nat /\ Refill * clock \in Nat
  <1>1. settings \in Configuration /\ \A r \in Request : origin[r] \in Origin
    BY SettingsAssumption DEF TypeOK
  <1>2. /\ \A i \in ClientId : bucket[i] \in 0..Burst
        /\ \A a \in Account : charged[a] \in Nat
    BY DEF TypeOK
  <1>3. Burst \in Nat /\ Refill \in Nat /\ clock \in Nat
    BY BucketAssumption DEF TypeOK
  <1>4. Refill * clock \in Nat
    BY <1>3
  <1>5. QED
    BY <1>1, <1>2, <1>3, <1>4, KeysTyped

LEMMA BudgetInit == Init => BudgetInv
  <1> SUFFICES ASSUME Init PROVE BudgetInv
    OBVIOUS
  <1>1. TypeOK
    BY TypeOKInit
  <1>2. /\ \A i \in ClientId : bucket[i] = Burst
        /\ \A a \in Account : charged[a] = 0
        /\ \A r \in Request : outcome[r] = "none"
        /\ clock = 0
    BY DEF Init
  <1>3. Conserved
    BY <1>1, <1>2, KeysInState DEF Conserved
  <1>4. OwnUse
    BY <1>1, <1>2, KeysInState DEF OwnUse
  <1>5. QED
    BY <1>1, <1>3, <1>4 DEF BudgetInv

\* Only the limiter and the clock change what the invariant is about.
LEMMA BudgetUnchanged ==
  ASSUME BudgetInv, TypeOK', UNCHANGED <<settings, origin, bucket, clock, charged>>,
         \A r \in Request : outcome'[r] = "limited" => outcome[r] = "limited"
  PROVE  BudgetInv'
  BY DEF BudgetInv, Conserved, OwnUse

LEMMA BudgetRateLimit ==
  ASSUME BudgetInv, TypeOK', NEW r \in Request, RateLimit(r)
  PROVE  BudgetInv'
  <1> DEFINE b == BucketOf(origin[r], settings)
             p == AccountOf(origin[r], settings)
  <1>1. /\ TypeOK /\ b \in ClientId /\ p \in Account /\ origin[r] \in Origin
        /\ UNCHANGED <<settings, origin, clock>>
    BY KeysInState DEF BudgetInv, RateLimit
  <1>2. ASSUME bucket[b] > 0, bucket' = [bucket EXCEPT ![b] = @ - 1],
               charged' = [charged EXCEPT ![p] = @ + 1], CallNext(r)
        PROVE  BudgetInv'
    <2>1. /\ \A i \in ClientId : bucket'[i] = IF i = b THEN bucket[i] - 1 ELSE bucket[i]
          /\ \A q \in Account : charged'[q] = IF q = p THEN charged[q] + 1 ELSE charged[q]
      BY <1>1, <1>2 DEF TypeOK
    <2>2. UNCHANGED outcome
      BY <1>2 DEF CallNext
    <2>3. Conserved'
      <3>1. ASSUME NEW o \in Origin
            PROVE  charged'[AccountOf(o, settings)] + bucket'[BucketOf(o, settings)]
                     <= charged[AccountOf(o, settings)] + bucket[BucketOf(o, settings)]
        <4>1. AccountOf(o, settings) = p => BucketOf(o, settings) = b
          BY DEF AccountOf
        <4>2. QED
          BY <1>1, <2>1, <4>1, KeysInState
      <3>2. ASSUME NEW o \in Origin
            PROVE  charged'[AccountOf(o, settings)] + bucket'[BucketOf(o, settings)]
                     <= Burst + Refill * clock
        <4>1. /\ charged'[AccountOf(o, settings)] \in Nat
              /\ bucket'[BucketOf(o, settings)] \in Nat
          BY <1>1, KeysInState DEF TypeOK
        <4>2. QED
          BY <1>1, <3>1, <4>1, KeysInState DEF BudgetInv, Conserved
      <3>3. \A q \in Account :
              (\A o \in Origin : AccountOf(o, settings) # q) => charged'[q] = 0
        BY <1>1, <2>1 DEF BudgetInv, Conserved
      <3>4. QED
        BY <1>1, <3>2, <3>3 DEF Conserved
    <2>4. OwnUse'
      <3> SUFFICES ASSUME Exact(settings)
                   PROVE  /\ \A o \in Origin :
                               bucket'[BucketOf(o, settings)] + charged'[AccountOf(o, settings)]
                                 >= Burst
                          /\ \A q \in Request : outcome[q] = "limited" =>
                               charged'[AccountOf(origin[q], settings)] >= Burst
        BY <1>1, <2>2 DEF OwnUse
      <3>1. ASSUME NEW o \in Origin
            PROVE  bucket'[BucketOf(o, settings)] + charged'[AccountOf(o, settings)] >= Burst
        <4>1. BucketOf(o, settings) = b => AccountOf(o, settings) = p
          BY <1>1, KeysInState, OnePrincipal DEF AccountOf
        <4>2. bucket[BucketOf(o, settings)] + charged[AccountOf(o, settings)] >= Burst
          BY DEF BudgetInv, OwnUse
        <4>3. QED
          BY <1>1, <2>1, <4>1, <4>2, KeysInState
      <3>2. ASSUME NEW q \in Request, outcome[q] = "limited"
            PROVE  charged'[AccountOf(origin[q], settings)] >= Burst
        <4>1. charged[AccountOf(origin[q], settings)] >= Burst
          BY <3>2 DEF BudgetInv, OwnUse
        <4>2. QED
          BY <1>1, <2>1, <4>1, KeysInState
      <3>3. QED
        BY <3>1, <3>2
    <2>5. QED
      BY <2>3, <2>4 DEF BudgetInv
  <1>3. ASSUME bucket[b] = 0, End(r, "limited"), UNCHANGED <<bucket, charged>>
        PROVE  BudgetInv'
    <2>1. Conserved'
      BY <1>1, <1>3 DEF BudgetInv, Conserved
    <2>2. \A q \in Request : outcome'[q] = "limited" => q = r \/ outcome[q] = "limited"
      BY <1>1, <1>3 DEF End, TypeOK
    <2>3. Exact(settings) => charged[p] >= Burst
      BY <1>1, <1>3, KeysInState DEF BudgetInv, OwnUse
    <2>4. OwnUse'
      BY <1>1, <1>3, <2>2, <2>3 DEF BudgetInv, OwnUse
    <2>5. QED
      BY <2>1, <2>4 DEF BudgetInv
  <1>4. QED
    BY <1>2, <1>3 DEF RateLimit

LEMMA BudgetTick ==
  ASSUME BudgetInv, TypeOK', Tick
  PROVE  BudgetInv'
  <1>1. /\ TypeOK /\ UNCHANGED <<settings, origin, outcome, charged>> /\ clock' = clock + 1
        /\ \A i \in ClientId : bucket'[i] = Smaller(Burst, bucket[i] + Refill)
    BY DEF BudgetInv, Tick
  <1>2. \A i \in ClientId : bucket'[i] >= bucket[i] /\ bucket'[i] <= bucket[i] + Refill
    BY <1>1, KeysInState DEF Smaller
  <1>3. Refill * clock' = Refill * clock + Refill
    BY <1>1, KeysInState
  <1>4. \A i \in ClientId : bucket'[i] \in Nat
    BY BucketAssumption DEF TypeOK
  <1>5. Conserved'
    <2>1. ASSUME NEW o \in Origin
          PROVE  charged[AccountOf(o, settings)] + bucket'[BucketOf(o, settings)]
                   <= Burst + Refill * clock'
      <3>1. charged[AccountOf(o, settings)] + bucket[BucketOf(o, settings)]
              <= Burst + Refill * clock
        BY DEF BudgetInv, Conserved
      <3>2. QED
        BY <1>1, <1>2, <1>3, <1>4, <3>1, KeysInState
    <2>2. QED
      BY <1>1, <2>1 DEF BudgetInv, Conserved
  <1>6. OwnUse'
    <2> SUFFICES ASSUME Exact(settings)
                 PROVE  /\ \A o \in Origin :
                             bucket'[BucketOf(o, settings)] + charged[AccountOf(o, settings)]
                               >= Burst
                        /\ \A r \in Request : outcome[r] = "limited" =>
                             charged[AccountOf(origin[r], settings)] >= Burst
      BY <1>1 DEF OwnUse
    <2>1. ASSUME NEW o \in Origin
          PROVE  bucket'[BucketOf(o, settings)] + charged[AccountOf(o, settings)] >= Burst
      <3>1. bucket[BucketOf(o, settings)] + charged[AccountOf(o, settings)] >= Burst
        BY DEF BudgetInv, OwnUse
      <3>2. QED
        BY <1>1, <1>2, <1>4, <3>1, KeysInState
    <2>2. QED
      BY <2>1 DEF BudgetInv, OwnUse
  <1>7. QED
    BY <1>5, <1>6 DEF BudgetInv

LEMMA BudgetNext == BudgetInv /\ [Next]_vars => BudgetInv'
  <1> SUFFICES ASSUME BudgetInv, [Next]_vars PROVE BudgetInv'
    OBVIOUS
  <1>1. TypeOK /\ TypeOK'
    BY TypeOKNext DEF BudgetInv
  <1>2. ASSUME NEW r \in Request, Arrive(r) PROVE BudgetInv'
    BY <1>1, <1>2, BudgetUnchanged DEF Arrive
  <1>3. ASSUME NEW r \in Request, RateLimit(r) PROVE BudgetInv'
    BY <1>1, <1>3, BudgetRateLimit
  <1>4. ASSUME NEW r \in Request, CheckTenant(r) PROVE BudgetInv'
    <2>1. \A q \in Request : outcome'[q] = "limited" => outcome[q] = "limited"
      BY <1>1, <1>4 DEF CheckTenant, CallNext, End, TypeOK
    <2>2. QED
      BY <1>1, <1>4, <2>1, BudgetUnchanged DEF CheckTenant
  <1>5. ASSUME NEW r \in Request, CheckRoles(r) PROVE BudgetInv'
    <2>1. \A q \in Request : outcome'[q] = "limited" => outcome[q] = "limited"
      BY <1>1, <1>5 DEF CheckRoles, CallNext, End, TypeOK
    <2>2. QED
      BY <1>1, <1>5, <2>1, BudgetUnchanged DEF CheckRoles
  <1>6. ASSUME NEW r \in Request, Dispatch(r) PROVE BudgetInv'
    <2>1. \A q \in Request : outcome'[q] = "limited" => outcome[q] = "limited"
      BY <1>1, <1>6 DEF Dispatch, End, TypeOK
    <2>2. QED
      BY <1>1, <1>6, <2>1, BudgetUnchanged DEF Dispatch
  <1>7. ASSUME Tick PROVE BudgetInv'
    BY <1>1, <1>7, BudgetTick
  <1>8. CASE UNCHANGED vars
    BY <1>1, <1>8, BudgetUnchanged DEF vars
  <1>9. QED
    BY <1>2, <1>3, <1>4, <1>5, <1>6, <1>7, <1>8 DEF Next

LEMMA BudgetInvariant == Spec => []BudgetInv
  BY BudgetInit, BudgetNext, PTL DEF Spec

\* For any configuration, number of hosts and header that a request may arrive with:
\* no principal gets more out of a bucket than its burst and the refills, and it draws on
\* a single one if it is a user, or if no more hops are trusted than there are proxies
\* (server/middleware.py:46-68).
THEOREM BudgetsHold == Spec => []BudgetHolds
  <1>1. BudgetInv => BudgetHolds
    <2> SUFFICES ASSUME BudgetInv, NEW p \in Principal
                 PROVE  /\ \A b \in ClientId : charged[<<p, b>>] <= Burst + Refill * clock
                        /\ p[1] = "user" \/ Covered(settings) =>
                             \A b, c \in Drawn(p) : b = c
      BY DEF BudgetHolds, Covered
    <2>1. TypeOK
      BY DEF BudgetInv
    <2>2. \A b \in ClientId : <<p, b>> \in Account
      BY DEF Account
    <2>3. ASSUME NEW b \in ClientId PROVE charged[<<p, b>>] <= Burst + Refill * clock
      <3>1. CASE \E o \in Origin : AccountOf(o, settings) = <<p, b>>
        <4>1. PICK o \in Origin : AccountOf(o, settings) = <<p, b>>
          BY <3>1
        <4>2. charged[<<p, b>>] + bucket[BucketOf(o, settings)] <= Burst + Refill * clock
          BY <4>1 DEF BudgetInv, Conserved
        <4>3. charged[<<p, b>>] \in Nat /\ bucket[BucketOf(o, settings)] \in Nat
          BY <2>1, <2>2, KeysInState
        <4>4. QED
          BY <2>1, <4>2, <4>3, KeysInState
      <3>2. CASE \A o \in Origin : AccountOf(o, settings) # <<p, b>>
        <4>1. charged[<<p, b>>] = 0
          BY <2>2, <3>2 DEF BudgetInv, Conserved
        <4>2. QED
          BY <2>1, <4>1, KeysInState
      <3>3. QED
        BY <3>1, <3>2
    <2>4. ASSUME NEW b \in Drawn(p)
          PROVE  \E o \in Origin : PrincipalOf(o, settings) = p /\ BucketOf(o, settings) = b
      <3>1. b \in ClientId /\ charged[<<p, b>>] # 0
        BY DEF Drawn
      <3>2. \E o \in Origin : AccountOf(o, settings) = <<p, b>>
        BY <2>2, <3>1 DEF BudgetInv, Conserved
      <3>3. QED
        BY <3>2 DEF AccountOf
    <2>5. ASSUME NEW b \in Drawn(p), NEW c \in Drawn(p), p[1] = "user" \/ Covered(settings)
          PROVE  b = c
      <3>1. PICK o \in Origin : PrincipalOf(o, settings) = p /\ BucketOf(o, settings) = b
        BY <2>4
      <3>2. PICK q \in Origin : PrincipalOf(q, settings) = p /\ BucketOf(q, settings) = c
        BY <2>4
      <3>3. CASE Covered(settings)
        BY <2>1, <3>1, <3>2, <3>3, KeysInState, OneBucket
      <3>4. CASE p[1] = "user"
        BY <3>1, <3>2, <3>4, UserBucket, Zenon
      <3>5. QED
        BY <2>5, <3>3, <3>4
    <2>6. QED
      BY <2>3, <2>5
  <1>2. QED
    BY <1>1, BudgetInvariant, PTL

\* Nobody is limited for what others do, where exactly the proxies that are there are
\* trusted and the limit is per client (server/middleware.py:6-19).
THEOREM LimitedOnlyForOwnUse == Spec => []LimitedForOwnUse
  <1>1. BudgetInv => LimitedForOwnUse
    BY DEF BudgetInv, OwnUse, Exact, LimitedForOwnUse
  <1>2. QED
    BY <1>1, BudgetInvariant, PTL

-----------------------------------------------------------------------------
(* The gates.                                                              *)

\* What it takes for a request to be past a place of the chain.
Cleared(r, name) ==
  origin[r].token # NoToken =>
    /\ name = "tenants" => TenantAllowed(origin[r].token, settings)
    /\ name = "roles" => RoleAllowed(origin[r].token, settings) \/ settings.audit

\* A request has cleared every place it is past, and one that is dispatched is past all.
GatesInv ==
  /\ TypeOK
  /\ \A r \in Request :
       /\ at[r] \in 0..(Len(Chain(settings)) + 1)
       /\ \A j \in DOMAIN Chain(settings) : j < at[r] => Cleared(r, Chain(settings)[j])
       /\ outcome[r] = "dispatched" => at[r] = Len(Chain(settings)) + 1

LEMMA GatesStep ==
  ASSUME GatesInv, TypeOK', UNCHANGED <<settings, origin>>,
         \A r \in Request :
           \/ at'[r] = at[r] /\ (outcome'[r] = "dispatched" => outcome[r] = "dispatched")
           \/ at[r] = 0 /\ at'[r] = 1 /\ UNCHANGED outcome
           \/ \E name : Facing(r, name) /\ Cleared(r, name) /\ CallNext(r)
           \/ at'[r] = at[r] /\ at[r] = Len(Chain(settings)) + 1
  PROVE  GatesInv'
  <1> DEFINE n == Len(Chain(settings))
  <1>1. n \in Nat /\ DOMAIN Chain(settings) = 1..n
    BY ChainShape, KeysInState DEF GatesInv
  <1>2. UNCHANGED Chain(settings) /\ \A r \in Request : \A name : Cleared(r, name)' <=> Cleared(r, name)
    BY DEF Cleared
  <1>3. ASSUME NEW r \in Request
        PROVE  /\ at'[r] \in 0..(n + 1)
               /\ \A j \in 1..n : j < at'[r] => Cleared(r, Chain(settings)[j])
               /\ outcome'[r] = "dispatched" => at'[r] = n + 1
    <2>1. /\ at[r] \in 0..(n + 1)
          /\ \A j \in 1..n : j < at[r] => Cleared(r, Chain(settings)[j])
          /\ outcome[r] = "dispatched" => at[r] = n + 1
      BY <1>1 DEF GatesInv
    <2>2. CASE at[r] = 0 /\ at'[r] = 1 /\ UNCHANGED outcome
      BY <1>1, <2>1, <2>2
    <2>3. CASE \E name : Facing(r, name) /\ Cleared(r, name) /\ CallNext(r)
      <3>1. /\ at[r] \in 1..n /\ Cleared(r, Chain(settings)[at[r]]) /\ outcome[r] = "none"
            /\ at'[r] = at[r] + 1 /\ UNCHANGED outcome
        BY <1>1, <2>3 DEF Facing, CallNext, GatesInv, TypeOK
      <3>2. \A j \in 1..n : j < at'[r] => j < at[r] \/ j = at[r]
        BY <1>1, <3>1
      <3>3. QED
        BY <1>1, <2>1, <3>1, <3>2
    <2>4. QED
      BY <1>1, <2>1, <2>2, <2>3
  <1>4. QED
    BY <1>1, <1>2, <1>3 DEF GatesInv

LEMMA GatesInit == Init => GatesInv
  <1> SUFFICES ASSUME Init PROVE GatesInv
    OBVIOUS
  <1>1. TypeOK
    BY TypeOKInit
  <1>2. Len(Chain(settings)) \in Nat /\ DOMAIN Chain(settings) = 1..Len(Chain(settings))
    BY <1>1, ChainShape, KeysInState
  <1>3. \A r \in Request : at[r] = 0 /\ outcome[r] = "none"
    BY DEF Init
  <1>4. QED
    BY <1>1, <1>2, <1>3 DEF GatesInv

LEMMA GatesNext == GatesInv /\ [Next]_vars => GatesInv'
  <1> SUFFICES ASSUME GatesInv, [Next]_vars PROVE GatesInv'
    OBVIOUS
  <1>1. TypeOK /\ TypeOK'
    BY TypeOKNext DEF GatesInv
  <1> DEFINE Stays(q) == at'[q] = at[q] /\ (outcome'[q] = "dispatched" => outcome[q] = "dispatched")
             Passes(q) == \E name : Facing(q, name) /\ Cleared(q, name) /\ CallNext(q)
  <1>2. ASSUME NEW r \in Request, Arrive(r) PROVE GatesInv'
    <2>1. \A q \in Request : Stays(q) \/ (at[q] = 0 /\ at'[q] = 1 /\ UNCHANGED outcome)
      BY <1>1, <1>2 DEF Arrive, TypeOK
    <2>2. QED
      BY <1>1, <1>2, <2>1, GatesStep DEF Arrive
  <1>3. ASSUME NEW r \in Request, NEW name, Facing(r, name), Cleared(r, name), CallNext(r),
               UNCHANGED <<settings, origin>>
        PROVE  GatesInv'
    <2>1. \A q \in Request : Stays(q) \/ Passes(q)
      BY <1>1, <1>3 DEF CallNext, TypeOK
    <2>2. QED
      BY <1>1, <1>3, <2>1, GatesStep
  <1>4. ASSUME NEW r \in Request, NEW o \in {"limited", "forbidden"}, End(r, o),
               UNCHANGED <<settings, origin>>
        PROVE  GatesInv'
    <2>1. \A q \in Request : Stays(q)
      BY <1>1, <1>4 DEF End, TypeOK
    <2>2. QED
      BY <1>1, <1>4, <2>1, GatesStep
  <1>5. ASSUME NEW r \in Request, RateLimit(r) PROVE GatesInv'
    <2>1. Cleared(r, "limiter")
      BY DEF Cleared
    <2>2. Facing(r, "limiter") /\ UNCHANGED <<settings, origin>>
          /\ (CallNext(r) \/ End(r, "limited"))
      BY <1>5 DEF RateLimit
    <2>3. QED
      BY <1>3, <1>4, <2>1, <2>2
  <1>6. ASSUME NEW r \in Request, CheckTenant(r) PROVE GatesInv'
    <2>1. Facing(r, "tenants") /\ UNCHANGED <<settings, origin>>
          /\ ((Cleared(r, "tenants") /\ CallNext(r)) \/ End(r, "forbidden"))
      BY <1>6 DEF CheckTenant, Cleared
    <2>2. QED
      BY <1>3, <1>4, <2>1
  <1>7. ASSUME NEW r \in Request, CheckRoles(r) PROVE GatesInv'
    <2>1. Facing(r, "roles") /\ UNCHANGED <<settings, origin>>
          /\ ((Cleared(r, "roles") /\ CallNext(r)) \/ End(r, "forbidden"))
      BY <1>7 DEF CheckRoles, Cleared
    <2>2. QED
      BY <1>3, <1>4, <2>1
  <1>8. ASSUME NEW r \in Request, Dispatch(r) PROVE GatesInv'
    <2>1. \A q \in Request : Stays(q) \/ (at'[q] = at[q] /\ at[q] = Len(Chain(settings)) + 1)
      BY <1>1, <1>8 DEF Dispatch, End, TypeOK
    <2>2. QED
      BY <1>1, <1>8, <2>1, GatesStep DEF Dispatch
  <1>9. CASE Tick \/ UNCHANGED vars
    <2>1. UNCHANGED <<settings, origin, at, outcome>>
      BY <1>9 DEF Tick, vars
    <2>2. QED
      BY <1>1, <2>1, GatesStep
  <1>10. QED
    BY <1>2, <1>5, <1>6, <1>7, <1>8, <1>9 DEF Next

\* What reaches the tools over an authenticated HTTP endpoint satisfies both allowlists,
\* for every configuration and however the requests' steps are interleaved
\* (providers/access_control.py:75-94, providers/middleware.py:33-43, app.py:137-154).
THEOREM DispatchedAllowed == Spec => []DispatchedIsAllowed
  <1>1. GatesInv => DispatchedIsAllowed
    <2> SUFFICES ASSUME GatesInv, NEW r \in Request,
                        outcome[r] = "dispatched", origin[r].token # NoToken
                 PROVE  /\ settings.auth = "entra-multi" /\ settings.tenants # {} =>
                             origin[r].token.tid \in settings.tenants
                        /\ settings.gate /\ settings.roles # {} /\ ~settings.audit
                             /\ origin[r].token.roles # NoClaim =>
                             origin[r].token.roles \cap settings.roles # {}
      BY DEF DispatchedIsAllowed
    <2>1. \A j \in DOMAIN Chain(settings) : Cleared(r, Chain(settings)[j])
      <3>1. Len(Chain(settings)) \in Nat /\ DOMAIN Chain(settings) = 1..Len(Chain(settings))
        BY ChainShape, KeysInState DEF GatesInv
      <3>2. QED
        BY <3>1 DEF GatesInv
    <2>2. /\ settings.auth = "entra-multi" /\ settings.tenants # {} => Cleared(r, "tenants")
          /\ settings.gate /\ settings.roles # {} => Cleared(r, "roles")
      BY <2>1, ChainShape, KeysInState DEF GatesInv
    <2>3. QED
      BY <2>2 DEF Cleared, TenantAllowed, RoleAllowed
  <1>2. QED
    BY <1>1, GatesInit, GatesNext, PTL DEF Spec

-----------------------------------------------------------------------------
(* What is judged.                                                         *)

\* The requests of an account that are past the chain's first place.
Onward(p) == {r \in Request : at[r] > 1 /\ AccountOf(origin[r], settings) = p}

\* With a limiter in the chain, whoever is past its place was charged, and only such
\* requests are judged.
ChargedInv ==
  /\ TypeOK
  /\ settings.limiter =>
       /\ \A p \in Account : Cardinality(Onward(p)) <= charged[p]
       /\ \A r \in Request : outcome[r] \in {"forbidden", "dispatched"} => at[r] > 1

\* The limiter is the first of its chain (app.py:137-141).
LEMMA LimiterFirst ==
  ASSUME NEW s \in Configuration, s.limiter
  PROVE  /\ Len(Chain(s)) \in Nat \ {0} /\ DOMAIN Chain(s) = 1..Len(Chain(s))
         /\ Chain(s)[1] = "limiter"
  <1> DEFINE T == s.auth = "entra-multi" /\ s.tenants # {}
             R == s.gate /\ s.roles # {}
             v == Only("tenants", T)
             w == Only("roles", R)
  <1>1. v \in Seq(Gate) /\ w \in Seq(Gate)
    <2>1. T \in BOOLEAN /\ R \in BOOLEAN
      BY SettingsTyped
    <2> HIDE DEF T, R
    <2>2. "tenants" \in Gate /\ "roles" \in Gate
      BY DEF Gate
    <2>3. QED
      BY <2>1, <2>2, OnlyTyped
  <1>2. Chain(s) = <<"limiter">> \o v \o w
    BY DEF Chain, Only
  <1>3. <<"limiter">> \in Seq(Gate)
    BY DEF Gate
  <1> HIDE DEF v, w
  <1>4. QED
    BY <1>1, <1>2, <1>3

LEMMA OnwardFinite ==
  ASSUME NEW p
  PROVE  IsFiniteSet(Onward(p)) /\ Cardinality(Onward(p)) \in Nat
  <1>1. Onward(p) \subseteq Request
    BY DEF Onward
  <1>2. QED
    BY <1>1, RequestAssumption, FS_Subset, FS_CardinalityType

LEMMA ChargedInit == Init => ChargedInv
  <1> SUFFICES ASSUME Init PROVE ChargedInv
    OBVIOUS
  <1>1. TypeOK
    BY TypeOKInit
  <1>2. \A p \in Account : Onward(p) = {} /\ charged[p] = 0
    BY DEF Init, Onward
  <1>3. \A r \in Request : outcome[r] = "none"
    BY DEF Init
  <1>4. QED
    BY <1>1, <1>2, <1>3, FS_EmptySet DEF ChargedInv

\* Requests that stay where they are, or leave the chain from past its first place.
LEMMA ChargedStays ==
  ASSUME ChargedInv, TypeOK', UNCHANGED <<settings, origin, charged>>,
         \A r \in Request : at'[r] > 1 => at[r] > 1,
         \A r \in Request : outcome'[r] \in {"forbidden", "dispatched"} => at'[r] > 1
  PROVE  ChargedInv'
  <1> SUFFICES ASSUME settings.limiter, NEW p \in Account
               PROVE  Cardinality(Onward(p)') <= charged'[p]
    BY DEF ChargedInv
  <1>1. Onward(p)' \subseteq Onward(p)
    BY DEF Onward
  <1>2. Cardinality(Onward(p)') <= Cardinality(Onward(p)) /\ Cardinality(Onward(p)') \in Nat
    BY <1>1, OnwardFinite, FS_Subset, FS_CardinalityType
  <1>3. charged[p] \in Nat /\ Cardinality(Onward(p)) <= charged[p]
    BY DEF ChargedInv, TypeOK
  <1>4. QED
    BY <1>2, <1>3, OnwardFinite

LEMMA ChargedRateLimit ==
  ASSUME ChargedInv, TypeOK', NEW r \in Request, RateLimit(r)
  PROVE  ChargedInv'
  <1> DEFINE o == AccountOf(origin[r], settings)
  <1>1. TypeOK /\ o \in Account
    BY KeysInState DEF ChargedInv
  <1>2. CASE /\ charged' = [charged EXCEPT ![o] = @ + 1] /\ CallNext(r)
             /\ UNCHANGED <<settings, origin>>
    <2> SUFFICES ASSUME settings.limiter
                 PROVE  /\ \A p \in Account : Cardinality(Onward(p)') <= charged'[p]
                        /\ \A q \in Request : outcome'[q] \in {"forbidden", "dispatched"} => at'[q] > 1
      BY <1>2 DEF ChargedInv
    <2>1. \A q \in Request : at'[q] = IF q = r THEN at[r] + 1 ELSE at[q]
      BY <1>1, <1>2 DEF CallNext, TypeOK
    <2>2. \A q \in Request : at[q] \in 0..4
      BY <1>1 DEF TypeOK
    <2>3. \A q \in Request : outcome'[q] \in {"forbidden", "dispatched"} => at'[q] > 1
      BY <1>2, <2>1, <2>2 DEF CallNext, ChargedInv
    <2>4. ASSUME NEW p \in Account PROVE Cardinality(Onward(p)') <= charged'[p]
      <3>1. /\ Cardinality(Onward(p)) <= charged[p] /\ charged[p] \in Nat
            /\ IsFiniteSet(Onward(p)) /\ Cardinality(Onward(p)) \in Nat
        BY <1>1, OnwardFinite DEF ChargedInv, TypeOK
      <3>2. CASE p = o
        <4>1. Onward(p)' \subseteq Onward(p) \cup {r}
          BY <1>2, <2>1 DEF Onward
        <4>2. /\ IsFiniteSet(Onward(p) \cup {r})
              /\ Cardinality(Onward(p) \cup {r}) \in Nat
              /\ Cardinality(Onward(p) \cup {r}) <= Cardinality(Onward(p)) + 1
          <5>1. /\ IsFiniteSet(Onward(p) \cup {r})
                /\ \/ Cardinality(Onward(p) \cup {r}) = Cardinality(Onward(p))
                   \/ Cardinality(Onward(p) \cup {r}) = Cardinality(Onward(p)) + 1
            BY <3>1, FS_AddElement
          <5>2. QED
            BY <3>1, <5>1
        <4>3. /\ Cardinality(Onward(p)') <= Cardinality(Onward(p) \cup {r})
              /\ Cardinality(Onward(p)') \in Nat
          BY <4>1, <4>2, FS_Subset, FS_CardinalityType
        <4>4. charged'[p] = charged[p] + 1
          BY <1>1, <1>2, <3>2 DEF TypeOK
        <4>5. QED
          BY <3>1, <4>2, <4>3, <4>4
      <3>3. CASE p # o
        <4>1. Onward(p)' = Onward(p)
          BY <1>2, <2>1, <3>3 DEF Onward
        <4>2. charged'[p] = charged[p]
          BY <1>1, <1>2, <3>3 DEF TypeOK
        <4>3. QED
          BY <3>1, <4>1, <4>2
      <3>4. QED
        BY <3>2, <3>3
    <2>5. QED
      BY <2>3, <2>4
  <1>3. CASE End(r, "limited") /\ UNCHANGED <<settings, origin, charged>>
    <2>1. UNCHANGED at /\ \A q \in Request : outcome'[q] \in {outcome[q], "limited"}
      BY <1>1, <1>3 DEF End, TypeOK
    <2>2. settings.limiter =>
            \A q \in Request : outcome'[q] \in {"forbidden", "dispatched"} => at'[q] > 1
      BY <2>1 DEF ChargedInv
    <2>3. CASE settings.limiter
      BY <1>3, <2>1, <2>2, <2>3, ChargedStays
    <2>4. CASE ~settings.limiter
      BY <1>3, <2>4 DEF ChargedInv
    <2>5. QED
      BY <2>3, <2>4
  <1>4. QED
    BY <1>2, <1>3 DEF RateLimit

\* A request that is judged stands past the limiter.
LEMMA ChargedJudge ==
  ASSUME ChargedInv, TypeOK', NEW r \in Request, CheckTenant(r) \/ CheckRoles(r) \/ Dispatch(r)
  PROVE  ChargedInv'
  <1>1. TypeOK /\ UNCHANGED <<settings, origin, charged>>
    BY DEF CheckTenant, CheckRoles, Dispatch, ChargedInv
  <1>2. CASE ~settings.limiter
    BY <1>1, <1>2 DEF ChargedInv
  <1>3. CASE settings.limiter
    <2>1. settings \in Configuration /\ at[r] \in 0..4
      BY <1>1, KeysInState DEF TypeOK
    <2>2. at[r] > 1
      <3>1. CASE Dispatch(r)
        <4>1. at[r] = Len(Chain(settings)) + 1
          BY <3>1 DEF Dispatch
        <4>2. QED
          BY <1>3, <2>1, <4>1, LimiterFirst
      <3>2. CASE CheckTenant(r) \/ CheckRoles(r)
        <4>1. at[r] \in DOMAIN Chain(settings) /\ Chain(settings)[at[r]] # "limiter"
          BY <3>2 DEF CheckTenant, CheckRoles, Facing
        <4>2. QED
          BY <1>3, <2>1, <4>1, LimiterFirst
      <3>3. QED
        BY <3>1, <3>2
    <2>3. CallNext(r) \/ \E o \in {"forbidden", "dispatched"} : End(r, o)
      BY DEF CheckTenant, CheckRoles, Dispatch
    <2>4. \A q \in Request : /\ at'[q] = at[q] \/ (q = r /\ at'[q] = at[q] + 1)
                             /\ q # r => outcome'[q] = outcome[q]
      BY <1>1, <2>3 DEF CallNext, End, TypeOK
    <2>5. \A q \in Request : at[q] \in 0..4 /\ (at[q] > 1 => at'[q] > 1)
      BY <1>1, <2>4 DEF TypeOK
    <2>6. \A q \in Request : at'[q] > 1 => at[q] > 1
      BY <2>2, <2>4
    <2>7. \A q \in Request : outcome'[q] \in {"forbidden", "dispatched"} => at'[q] > 1
      BY <1>3, <2>2, <2>4, <2>5 DEF ChargedInv
    <2>8. QED
      BY <1>1, <2>6, <2>7, ChargedStays
  <1>4. QED
    BY <1>2, <1>3

LEMMA ChargedNext == ChargedInv /\ [Next]_vars => ChargedInv'
  <1> SUFFICES ASSUME ChargedInv, [Next]_vars PROVE ChargedInv'
    OBVIOUS
  <1>1. TypeOK /\ TypeOK'
    BY TypeOKNext DEF ChargedInv
  <1>2. ASSUME NEW r \in Request, Arrive(r) PROVE ChargedInv'
    <2>1. /\ UNCHANGED <<settings, origin, outcome, charged>>
          /\ \A q \in Request : at'[q] = IF q = r THEN 1 ELSE at[q]
          /\ at[r] = 0
      BY <1>1, <1>2 DEF Arrive, TypeOK
    <2>2. \A q \in Request : at'[q] > 1 => at[q] > 1
      BY <2>1
    <2>3. settings.limiter =>
            \A q \in Request : outcome'[q] \in {"forbidden", "dispatched"} => at'[q] > 1
      BY <2>1 DEF ChargedInv
    <2>4. CASE settings.limiter
      BY <1>1, <2>1, <2>2, <2>3, <2>4, ChargedStays
    <2>5. CASE ~settings.limiter
      BY <1>1, <2>1, <2>5 DEF ChargedInv
    <2>6. QED
      BY <2>4, <2>5
  <1>3. ASSUME NEW r \in Request, RateLimit(r) PROVE ChargedInv'
    BY <1>1, <1>3, ChargedRateLimit
  <1>4. ASSUME NEW r \in Request, CheckTenant(r) \/ CheckRoles(r) \/ Dispatch(r) PROVE ChargedInv'
    BY <1>1, <1>4, ChargedJudge
  <1>5. CASE Tick \/ UNCHANGED vars
    <2>1. UNCHANGED <<settings, origin, at, outcome, charged>>
      BY <1>5 DEF Tick, vars
    <2>2. \A p \in Account : Onward(p)' = Onward(p)
      BY <2>1 DEF Onward
    <2>3. QED
      BY <1>1, <2>1, <2>2 DEF ChargedInv
  <1>6. QED
    BY <1>2, <1>3, <1>4, <1>5 DEF Next

\* With the limiter on, a principal has had no more requests judged by the gates than it
\* was charged for, bucket by bucket, however many arrive at once (app.py:137-154).
THEOREM JudgedWereCharged == Spec => []JudgedIsCharged
  <1>1. ChargedInv => JudgedIsCharged
    <2> SUFFICES ASSUME ChargedInv, settings.limiter, NEW p \in Account
                 PROVE  Cardinality(Judged(p)) <= charged[p]
      BY DEF JudgedIsCharged
    <2>1. Judged(p) \subseteq Onward(p)
      BY DEF ChargedInv, Judged, Onward
    <2>2. Cardinality(Judged(p)) <= Cardinality(Onward(p)) /\ Cardinality(Judged(p)) \in Nat
      BY <2>1, OnwardFinite, FS_Subset, FS_CardinalityType
    <2>3. charged[p] \in Nat /\ Cardinality(Onward(p)) <= charged[p]
      BY DEF ChargedInv, TypeOK
    <2>4. QED
      BY <2>2, <2>3, OnwardFinite
  <1>2. QED
    BY <1>1, ChargedInit, ChargedNext, PTL DEF Spec
=============================================================================
