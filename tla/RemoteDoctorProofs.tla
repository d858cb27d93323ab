------------------------- MODULE RemoteDoctorProofs -------------------------
(***************************************************************************)
(* What holds of RemoteDoctor for any number of drifts and of faults, any  *)
(* set of checks whose output may exceed its limit, and any set of         *)
(* configurations.                                                         *)
(*                                                                         *)
(* The argument rests on two facts about the code: the checks come in a    *)
(* fixed order (the ranks below), and a repair only ever settles what it   *)
(* changes (Keeps), but for the units that a restart of sshd may fail.     *)
(* The host is therefore at all times a settled form of the baseline, and  *)
(* an old reading of a check that names its repairs may find what is gone, *)
(* but misses nothing.                                                     *)
(*                                                                         *)
(* The invariant has four parts: the types (WellTyped), what the repairs   *)
(* are trusted with (Trusting), what is known of the checks that passed    *)
(* (Passing), and how far a run without mishaps has come (Settling).       *)
(***************************************************************************)
EXTENDS RemoteDoctor, SequenceTheorems, TLAPS

(* The hosts: a value of its own for every facet.                           *)
Value == UNION {Facets[f] : f \in Facet}
Host == {h \in [Facet -> Value] : \A f \in Facet : h[f] \in Facets[f]}

(* What any number of repairs may make of a host, but for its units: the    *)
(* facets stay or become sound, accounts of the image may go, a hash in the *)
(* user data becomes a former one, old packages may come to light.          *)
Special == {"units", "packages", "userData", "accounts"}
Settled(h, r) ==
    /\ \A f \in Facet \ Special : r[f] = h[f] \/ r[f] = Sound[f]
    /\ r.accounts = h.accounts \/ r.accounts = h.accounts \ {"image"}
    /\ r.userData = h.userData \/ (h.userData = "currentHash" /\ r.userData = "formerHash")
    /\ r.packages = h.packages \/ r.packages = "current" \/ h.packages = "unseen"

Working == {"guard", "repair", "recheck"}
Grades == {"pass", "warn", "fail", "skip"}

WellTyped ==
    /\ cfg \in Configs /\ opt \in Options
    /\ host \in Host /\ base \in Host /\ first \in Host
    /\ at \in {"identify", "batch", "check", "guard", "repair", "recheck", "done"}
    /\ pos \in 1 .. Len(Checks) + 1
    /\ at \in Working => pos \in DOMAIN Checks /\ Script(Current) # "none"
    /\ errors \subseteq Check
    /\ \A script \in ran : \E c \in Check : Script(c) = script
    /\ verdict \in Seq(Grades) /\ Len(verdict) = pos - 1
    /\ trusted \in BOOLEAN /\ (trusted => opt.fix /\ errors = {})
    /\ blocked \in BOOLEAN /\ retried \in BOOLEAN
    /\ routeAt \in 0 .. Len(Checks) + 1 /\ faults \in 0 .. Faults

Trusting ==
    /\ at # "done" => ~blocked
    /\ host.platform = first.platform /\ base.platform = first.platform
    /\ Settled(base, host)
    /\ at \in Working =>
         /\ trusted /\ base.platform = "good"
         /\ Current = "gh token" => base.gh \in {"rejected", "absent"}
    /\ at = "repair" /\ Current = "openssh" => routeAt = 0 \/ routeAt > pos

Passing ==
    /\ "sshd settings" \notin ran /\ base.units = "healthy" => host.units = "healthy"
    /\ \A i \in DOMAIN verdict :
         verdict[i] = "pass" /\ Checks[i] \in Rereads => Holds(Checks[i])

(* A run with --fix, without gaps, faults and routes, on a host that drifts *)
(* only in what doctor can repair: what it has settled when it stands at    *)
(* the check at hand.                                                       *)
Smooth == ~blocked /\ opt.fix /\ errors = {} /\ faults = 0 /\ routeAt = 0 /\ Repairable(first)

Orderly ==
    /\ base = first /\ trusted
    /\ \A i \in DOMAIN verdict : verdict[i] # "fail"
    /\ \A s \in ran : \E j \in DOMAIN Checks :
         Script(Checks[j]) = s /\ (j < pos \/ (j = pos /\ at = "recheck"))
    /\ "sshd settings" \in ran => host.login = "hard" /\ host.forward = "hard"
    /\ "lockdown" \in ran => host.outgoing = "deny" /\ host.sshOut = "allowed"
    /\ \A k \in 1 .. pos - 1 :
         /\ Checks[k] = "ufw active" => host.ufw = "active"
         /\ Checks[k] = "gh token" => host.gh # "rejected"
    /\ at \in Working /\ Current = "gh token" => opt.pat = "live"
    /\ at = "recheck" => AfterGrade(Current, Probe(Current, host)) # "fail"

Settling ==
    /\ at \in {"identify", "batch"} /\ opt.fix => host = first
    /\ Smooth /\ at \notin {"identify", "batch"} => Orderly

-----------------------------------------------------------------------------
(* The order of the checks *)

(* The place of a check among all that a configuration may ask for. *)
Rank(c) ==
    CASE c = "platform" -> 1
      [] c = "sudo" -> 2
      [] c = "hash" -> 3
      [] c = "cloud-init" -> 4
      [] c = "admin user" -> 5
      [] c = "ufw active" -> 6
      [] c = "ufw deny" -> 7
      [] c = "ufw ssh" -> 8
      [] c = "login" -> 9
      [] c = "forward" -> 10
      [] c = "units" -> 11
      [] c = "apparmor" -> 12
      [] c = "upgrades" -> 13
      [] c = "journald" -> 14
      [] c = "gh token" -> 15
      [] c = "tools" -> 16
      [] c = "dns" -> 17
      [] c = "egress" -> 18
      [] c = "ufw ssh egress" -> 19
      [] c = "egress restricted" -> 20
      [] c = "openssh" -> 21
      [] c = "reboot pending" -> 22
      [] c = "reboot survivability" -> 23
      [] c = "apt config" -> 24
      [] c = "accounts" -> 25
      [] c = "user-data" -> 26
      [] c = "operator" -> 27
      [] c = "serve" -> 28
      [] c = "sysctl" -> 29
      [] c = "git identity" -> 30
      [] c = "github ssh" -> 31
      [] c = "connector" -> 32
      [] c = "pin" -> 33
      [] c = "ingress" -> 33

(* The ranks of the three parts that every order of the checks shares. *)
LEMMA OpeningRank == \A i \in 1 .. 11 : Rank(Opening[i]) = i
<1> SUFFICES ASSUME NEW i \in 1 .. 11 PROVE Rank(Opening[i]) = i
  OBVIOUS
<1>1. i = 1 => Rank(Opening[i]) = i
  BY DEF Opening, Rank
<1>2. i = 2 => Rank(Opening[i]) = i
  BY DEF Opening, Rank
<1>3. i = 3 => Rank(Opening[i]) = i
  BY DEF Opening, Rank
<1>4. i = 4 => Rank(Opening[i]) = i
  BY DEF Opening, Rank
<1>5. i = 5 => Rank(Opening[i]) = i
  BY DEF Opening, Rank
<1>6. i = 6 => Rank(Opening[i]) = i
  BY DEF Opening, Rank
<1>7. i = 7 => Rank(Opening[i]) = i
  BY DEF Opening, Rank
<1>8. i = 8 => Rank(Opening[i]) = i
  BY DEF Opening, Rank
<1>9. i = 9 => Rank(Opening[i]) = i
  BY DEF Opening, Rank
<1>10. i = 10 => Rank(Opening[i]) = i
  BY DEF Opening, Rank
<1>11. i = 11 => Rank(Opening[i]) = i
  BY DEF Opening, Rank
<1> QED
  BY <1>1, <1>2, <1>3, <1>4, <1>5, <1>6, <1>7, <1>8, <1>9, <1>10, <1>11

LEMMA SoftwareRank == \A i \in 1 .. 7 : Rank(Software[i]) = i + 11
<1> SUFFICES ASSUME NEW i \in 1 .. 7 PROVE Rank(Software[i]) = i + 11
  OBVIOUS
<1>1. i = 1 => Rank(Software[i]) = i + 11
  BY DEF Software, Rank
<1>2. i = 2 => Rank(Software[i]) = i + 11
  BY DEF Software, Rank
<1>3. i = 3 => Rank(Software[i]) = i + 11
  BY DEF Software, Rank
<1>4. i = 4 => Rank(Software[i]) = i + 11
  BY DEF Software, Rank
<1>5. i = 5 => Rank(Software[i]) = i + 11
  BY DEF Software, Rank
<1>6. i = 6 => Rank(Software[i]) = i + 11
  BY DEF Software, Rank
<1>7. i = 7 => Rank(Software[i]) = i + 11
  BY DEF Software, Rank
<1> QED
  BY <1>1, <1>2, <1>3, <1>4, <1>5, <1>6, <1>7

LEMMA ClosingRank == \A i \in 1 .. 11 : Rank(Closing[i]) = i + 20
<1> SUFFICES ASSUME NEW i \in 1 .. 11 PROVE Rank(Closing[i]) = i + 20
  OBVIOUS
<1>1. i = 1 => Rank(Closing[i]) = i + 20
  BY DEF Closing, Rank
<1>2. i = 2 => Rank(Closing[i]) = i + 20
  BY DEF Closing, Rank
<1>3. i = 3 => Rank(Closing[i]) = i + 20
  BY DEF Closing, Rank
<1>4. i = 4 => Rank(Closing[i]) = i + 20
  BY DEF Closing, Rank
<1>5. i = 5 => Rank(Closing[i]) = i + 20
  BY DEF Closing, Rank
<1>6. i = 6 => Rank(Closing[i]) = i + 20
  BY DEF Closing, Rank
<1>7. i = 7 => Rank(Closing[i]) = i + 20
  BY DEF Closing, Rank
<1>8. i = 8 => Rank(Closing[i]) = i + 20
  BY DEF Closing, Rank
<1>9. i = 9 => Rank(Closing[i]) = i + 20
  BY DEF Closing, Rank
<1>10. i = 10 => Rank(Closing[i]) = i + 20
  BY DEF Closing, Rank
<1>11. i = 11 => Rank(Closing[i]) = i + 20
  BY DEF Closing, Rank
<1> QED
  BY <1>1, <1>2, <1>3, <1>4, <1>5, <1>6, <1>7, <1>8, <1>9, <1>10, <1>11

Lockdown(c) == IF c.lockdown THEN <<"ufw ssh egress", "egress restricted">> ELSE <<>>
Tunnel(c) == IF c.tunnel THEN <<"connector", "pin">> ELSE <<"connector", "ingress">>

Names == {Opening[i] : i \in 1 .. 11} \union {Software[i] : i \in 1 .. 7}
             \union {Closing[i] : i \in 1 .. 11}
             \union {"ufw ssh egress", "egress restricted", "connector", "pin", "ingress"}

(* Sequences: a function on 1 .. n, a pair, two joined ones. *)
LEMMA SequenceOf ==
    ASSUME NEW s, NEW S, NEW n \in Nat, s = [i \in 1 .. n |-> s[i]], \A i \in 1 .. n : s[i] \in S
    PROVE  s \in Seq(S) /\ Len(s) = n
OBVIOUS

LEMMA Pair ==
    ASSUME NEW a, NEW b, NEW S, a \in S, b \in S
    PROVE  /\ <<a, b>> \in Seq(S) /\ Len(<<a, b>>) = 2
           /\ <<a, b>>[1] = a /\ <<a, b>>[2] = b
OBVIOUS

LEMMA Join ==
    ASSUME NEW S, NEW s \in Seq(S), NEW t \in Seq(S), NEW r, r = s \o t
    PROVE  /\ r \in Seq(S) /\ Len(r) = Len(s) + Len(t)
           /\ \A i \in 1 .. Len(s) : r[i] = s[i]
           /\ \A i \in 1 .. Len(r) : i > Len(s) => r[i] = t[i - Len(s)]
<1>1. /\ s \o t \in Seq(S) /\ Len(s \o t) = Len(s) + Len(t)
      /\ \A i \in 1 .. Len(s) + Len(t) :
           (s \o t)[i] = IF i <= Len(s) THEN s[i] ELSE t[i - Len(s)]
  OBVIOUS
<1>2. Len(s) \in Nat /\ Len(t) \in Nat
  OBVIOUS
<1> QED
  BY <1>1, <1>2

(* The parts of the order are sequences of names. *)
LEMMA CommonParts ==
    /\ Opening \in Seq(Names) /\ Software \in Seq(Names) /\ Closing \in Seq(Names)
    /\ Len(Opening) = 11 /\ Len(Software) = 7 /\ Len(Closing) = 11
<1>1. Opening = [i \in 1 .. 11 |-> Opening[i]] /\ Closing = [i \in 1 .. 11 |-> Closing[i]]
  BY DEF Opening, Closing
<1>2. Software = [i \in 1 .. 7 |-> Software[i]]
  BY DEF Software
<1>3. /\ \A i \in 1 .. 11 : Opening[i] \in Names /\ Closing[i] \in Names
      /\ \A i \in 1 .. 7 : Software[i] \in Names
  BY DEF Names
<1> QED
  BY <1>1, <1>2, <1>3, SequenceOf

LEMMA RankedPair ==
    ASSUME NEW a \in Names, NEW b \in Names, NEW p, p = <<a, b>>
    PROVE  /\ p \in Seq(Names) /\ Len(p) = 2
           /\ \A i \in 1 .. 2 : Rank(p[i]) = IF i = 1 THEN Rank(a) ELSE Rank(b)
<1>1. p \in Seq(Names) /\ Len(p) = 2 /\ p[1] = a /\ p[2] = b
  BY Pair
<1>2. ASSUME NEW i \in 1 .. 2 PROVE Rank(p[i]) = IF i = 1 THEN Rank(a) ELSE Rank(b)
  <2>1. CASE i = 1
    BY <1>1, <2>1
  <2>2. CASE i = 2
    BY <1>1, <2>2
  <2> QED
    BY <2>1, <2>2
<1> QED
  BY <1>1, <1>2

(* The parts that depend on the configuration, and their ranks. *)
LEMMA NamedPairs ==
    ASSUME NEW p
    PROVE  /\ p = <<"ufw ssh egress", "egress restricted">> =>
                p \in Seq(Names) /\ Len(p) = 2 /\ \A i \in 1 .. 2 : Rank(p[i]) = 18 + i
           /\ p = <<"connector", "pin">> \/ p = <<"connector", "ingress">> =>
                p \in Seq(Names) /\ Len(p) = 2 /\ \A i \in 1 .. 2 : Rank(p[i]) = 31 + i
<1>1. /\ "ufw ssh egress" \in Names /\ "egress restricted" \in Names
      /\ "connector" \in Names /\ "pin" \in Names /\ "ingress" \in Names
  BY DEF Names
<1>2. /\ Rank("ufw ssh egress") = 19 /\ Rank("egress restricted") = 20
      /\ Rank("connector") = 32 /\ Rank("pin") = 33 /\ Rank("ingress") = 33
  BY DEF Rank
<1>3. /\ \A i \in 1 .. 2 : 18 + i = IF i = 1 THEN 19 ELSE 20
      /\ \A i \in 1 .. 2 : 31 + i = IF i = 1 THEN 32 ELSE 33
  OBVIOUS
<1>4. ASSUME p = <<"ufw ssh egress", "egress restricted">>
      PROVE  p \in Seq(Names) /\ Len(p) = 2 /\ \A i \in 1 .. 2 : Rank(p[i]) = 18 + i
  <2>1. PICK a \in Names : a = "ufw ssh egress"
    BY <1>1
  <2>2. PICK b \in Names : b = "egress restricted"
    BY <1>1
  <2>3. p = <<a, b>>
    BY <1>4, <2>1, <2>2
  <2>4. /\ p \in Seq(Names) /\ Len(p) = 2
        /\ \A i \in 1 .. 2 : Rank(p[i]) = IF i = 1 THEN Rank(a) ELSE Rank(b)
    BY <2>3, RankedPair
  <2>5. Rank(a) = 19 /\ Rank(b) = 20
    BY <2>1, <2>2, <1>2
  <2> QED
    BY <2>4, <2>5, <1>3
<1>5. ASSUME NEW b \in {"pin", "ingress"}, p = <<"connector", b>>
      PROVE  p \in Seq(Names) /\ Len(p) = 2 /\ \A i \in 1 .. 2 : Rank(p[i]) = 31 + i
  <2>1. PICK a \in Names : a = "connector"
    BY <1>1
  <2>2. b \in Names /\ p = <<a, b>>
    BY <1>1, <1>5, <2>1
  <2>3. /\ p \in Seq(Names) /\ Len(p) = 2
        /\ \A i \in 1 .. 2 : Rank(p[i]) = IF i = 1 THEN Rank(a) ELSE Rank(b)
    BY <2>2, RankedPair
  <2>4. Rank(a) = 32 /\ Rank(b) = 33
    BY <2>1, <1>2
  <2> QED
    BY <2>3, <2>4, <1>3
<1> QED
  BY <1>4, <1>5

Length(c) == IF c.lockdown THEN 33 ELSE 31

(* In every configuration the checks come in the order of their ranks, and  *)
(* the places of three of them are fixed.                                   *)
LEMMA OrderRank ==
    ASSUME NEW c \in Configs
    PROVE  /\ Order[c] \in Seq(Names) /\ Len(Order[c]) = Length(c)
           /\ \A i \in 1 .. Length(c) :
                Rank(Order[c][i]) = IF i <= 18 \/ c.lockdown THEN i ELSE i + 2
           /\ Order[c][1] = "platform" /\ Order[c][6] = "ufw active" /\ Order[c][15] = "gh token"
<1>n. PICK n \in {0, 2} : (c.lockdown => n = 2) /\ (~c.lockdown => n = 0)
  OBVIOUS
<1>l. PICK L : L = Lockdown(c)
  OBVIOUS
<1>t. PICK T : T = Tunnel(c)
  OBVIOUS
<1>8. L \in Seq(Names) /\ Len(L) = n /\ \A i \in 1 .. n : Rank(L[i]) = 18 + i
  <2>1. CASE c.lockdown
    <3>1. L = <<"ufw ssh egress", "egress restricted">> /\ n = 2
      BY <2>1, <1>n, <1>l DEF Lockdown
    <3>2. L \in Seq(Names) /\ Len(L) = 2 /\ \A i \in 1 .. 2 : Rank(L[i]) = 18 + i
      BY <3>1, NamedPairs
    <3> QED
      BY <3>1, <3>2
  <2>2. CASE ~c.lockdown
    <3>1. L = <<>> /\ n = 0
      BY <2>2, <1>n, <1>l DEF Lockdown
    <3>2. \A i \in 1 .. 0 : FALSE
      OBVIOUS
    <3> QED
      BY <3>1, <3>2
  <2> QED
    BY <2>1, <2>2
<1>9. T \in Seq(Names) /\ Len(T) = 2 /\ \A i \in 1 .. 2 : Rank(T[i]) = 31 + i
  <2>1. T = <<"connector", "pin">> \/ T = <<"connector", "ingress">>
    BY <1>t DEF Tunnel
  <2> QED
    BY <2>1, NamedPairs
<1>a. PICK A : A = Opening \o Software
  OBVIOUS
<1>2. /\ A \in Seq(Names) /\ Len(A) = 18
      /\ \A i \in 1 .. 11 : A[i] = Opening[i]
      /\ \A i \in 1 .. 18 : i > 11 => A[i] = Software[i - 11]
  <2>1. Opening \in Seq(Names) /\ Software \in Seq(Names)
    BY CommonParts
  <2>2. /\ A \in Seq(Names) /\ Len(A) = Len(Opening) + Len(Software)
        /\ \A i \in 1 .. Len(Opening) : A[i] = Opening[i]
        /\ \A i \in 1 .. Len(A) : i > Len(Opening) => A[i] = Software[i - Len(Opening)]
    BY <2>1, <1>a, Join
  <2>3. Len(Opening) = 11 /\ Len(Software) = 7 /\ 11 + 7 = 18
    BY CommonParts
  <2> QED
    BY <2>2, <2>3
<1>b. PICK B : B = A \o L
  OBVIOUS
<1>3. /\ B \in Seq(Names) /\ Len(B) = 18 + n
      /\ \A i \in 1 .. 18 : B[i] = A[i]
      /\ \A i \in 1 .. (18 + n) : i > 18 => B[i] = L[i - 18]
  <2>1. A \in Seq(Names) /\ L \in Seq(Names)
    BY <1>2, <1>8, <1>n
  <2>2. /\ B \in Seq(Names) /\ Len(B) = Len(A) + Len(L)
        /\ \A i \in 1 .. Len(A) : B[i] = A[i]
        /\ \A i \in 1 .. Len(B) : i > Len(A) => B[i] = L[i - Len(A)]
    BY <2>1, <1>b, Join
  <2>3. Len(A) = 18 /\ Len(L) = n
    BY <1>2, <1>8, <1>n
  <2> QED
    BY <2>2, <2>3
<1>c. PICK C : C = B \o Closing
  OBVIOUS
<1>4. /\ C \in Seq(Names) /\ Len(C) = 29 + n
      /\ \A i \in 1 .. (18 + n) : C[i] = B[i]
      /\ \A i \in 1 .. (29 + n) : i > 18 + n => C[i] = Closing[i - (18 + n)]
  <2>1. B \in Seq(Names) /\ Closing \in Seq(Names)
    BY <1>3, <1>n, CommonParts
  <2>2. /\ C \in Seq(Names) /\ Len(C) = Len(B) + Len(Closing)
        /\ \A i \in 1 .. Len(B) : C[i] = B[i]
        /\ \A i \in 1 .. Len(C) : i > Len(B) => C[i] = Closing[i - Len(B)]
    BY <2>1, <1>c, Join
  <2>3. Len(B) = 18 + n /\ Len(Closing) = 11 /\ 18 + n + 11 = 29 + n
    BY <1>3, <1>n, CommonParts
  <2> QED
    BY <2>2, <2>3
<1>d. PICK D : D = C \o T
  OBVIOUS
<1>5. /\ D \in Seq(Names) /\ Len(D) = 31 + n
      /\ \A i \in 1 .. (29 + n) : D[i] = C[i]
      /\ \A i \in 1 .. (31 + n) : i > 29 + n => D[i] = T[i - (29 + n)]
  <2>1. C \in Seq(Names) /\ T \in Seq(Names)
    BY <1>4, <1>n, <1>9
  <2>2. /\ D \in Seq(Names) /\ Len(D) = Len(C) + Len(T)
        /\ \A i \in 1 .. Len(C) : D[i] = C[i]
        /\ \A i \in 1 .. Len(D) : i > Len(C) => D[i] = T[i - Len(C)]
    BY <2>1, <1>d, Join
  <2>3. Len(C) = 29 + n /\ Len(T) = 2 /\ 29 + n + 2 = 31 + n
    BY <1>4, <1>n, <1>9
  <2> QED
    BY <2>2, <2>3
<1>0. Order[c] = D
  BY <1>a, <1>b, <1>c, <1>d, <1>l, <1>t DEF Order, Lockdown, Tunnel
<1>1. Length(c) = 31 + n
  BY <1>n DEF Length
<1>6. ASSUME NEW i \in 1 .. (31 + n)
      PROVE  Rank(D[i]) = IF i <= 18 \/ c.lockdown THEN i ELSE i + 2
  <2>4. CASE i \in 1 .. 11
    <3>1. i \in 1 .. 18 /\ i \in 1 .. (18 + n) /\ i \in 1 .. (29 + n)
      BY <2>4
    <3>2. D[i] = Opening[i]
      BY <2>4, <3>1, <1>2, <1>3, <1>4, <1>5
    <3> QED
      BY <2>4, <3>2, OpeningRank
  <2>5. CASE i \in (11 + 1) .. (11 + 7)
    <3>1. /\ i \in 1 .. 18 /\ i \in 1 .. (18 + n) /\ i \in 1 .. (29 + n)
          /\ i > 11 /\ i - 11 \in 1 .. 7
      BY <2>5
    <3>2. A[i] = Software[i - 11]
      BY <3>1, <1>2
    <3>4. D[i] = A[i]
      BY <3>1, <1>3, <1>4, <1>5
    <3>3. Rank(Software[i - 11]) = i - 11 + 11
      BY <3>1, SoftwareRank
    <3> QED
      BY <2>5, <3>1, <3>2, <3>3, <3>4
  <2>6. CASE i \in (18 + 1) .. (18 + n)
    <3>1. /\ n = 2 /\ c.lockdown /\ i - 18 \in 1 .. n
          /\ i \in 1 .. (18 + n) /\ i \in 1 .. (29 + n)
      BY <2>6, <1>n
    <3>2. B[i] = L[i - 18]
      BY <2>6, <3>1, <1>3
    <3>4. D[i] = B[i]
      BY <3>1, <1>4, <1>5
    <3>3. Rank(L[i - 18]) = 18 + (i - 18)
      BY <3>1, <1>8
    <3> QED
      BY <2>6, <3>1, <3>2, <3>3, <3>4
  <2>7. CASE i \in (19 + n) .. (29 + n)
    <3>1. i - (18 + n) \in 1 .. 11 /\ i \in 1 .. (29 + n)
      BY <2>7
    <3>2. D[i] = Closing[i - (18 + n)]
      BY <2>7, <3>1, <1>4, <1>5
    <3>3. Rank(Closing[i - (18 + n)]) = i - (18 + n) + 20
      BY <3>1, ClosingRank
    <3> QED
      BY <1>n, <2>7, <3>2, <3>3
  <2>8. CASE i \in (30 + n) .. (31 + n)
    <3>1. i - (29 + n) \in 1 .. 2
      BY <2>8
    <3>2. D[i] = T[i - (29 + n)]
      BY <2>8, <1>5
    <3>3. Rank(T[i - (29 + n)]) = 31 + (i - (29 + n))
      BY <3>1, <1>9
    <3> QED
      BY <1>n, <2>8, <3>2, <3>3
  <2> QED
    BY <2>4, <2>5, <2>6, <2>7, <2>8
<1>7. D[1] = "platform" /\ D[6] = "ufw active" /\ D[15] = "gh token"
  <2>1. A[1] = Opening[1] /\ A[6] = Opening[6] /\ A[15] = Software[4]
    BY <1>2
  <2>2. \A i \in {1, 6, 15} : i \in 1 .. 18 /\ i \in 1 .. (18 + n) /\ i \in 1 .. (29 + n)
    OBVIOUS
  <2>3. D[1] = A[1] /\ D[6] = A[6] /\ D[15] = A[15]
    BY <2>2, <1>3, <1>4, <1>5
  <2>4. Opening[1] = "platform" /\ Opening[6] = "ufw active" /\ Software[4] = "gh token"
    BY DEF Opening, Software
  <2> QED
    BY <2>1, <2>3, <2>4
<1> QED
  BY <1>0, <1>1, <1>5, <1>6, <1>7

-----------------------------------------------------------------------------
(* Hosts, and what the repairs make of them *)

(* The values of the facets and the sound one, facet by facet. *)
LEMMA PlainFacet ==
    ASSUME NEW f \in Plain
    PROVE  f \in Facet /\ Facets[f] = {"good", "bad"} /\ Sound[f] = "good"
BY DEF Facet, Facets, Sound

LEMMA FacetValues ==
    /\ "sudo" \in Facet /\ Facets["sudo"] = {"password", "nopasswd"} /\ Sound["sudo"] = "password"
    /\ "hash" \in Facet /\ Facets["hash"] = {"strong", "legacy"} /\ Sound["hash"] = "strong"
    /\ "ufw" \in Facet /\ Facets["ufw"] = {"active", "inactive"} /\ Sound["ufw"] = "active"
    /\ "incoming" \in Facet /\ Facets["incoming"] = {"deny", "allow"} /\ Sound["incoming"] = "deny"
    /\ "sshRule" \in Facet /\ Facets["sshRule"] = {"none", "allowed"} /\ Sound["sshRule"] = "none"
    /\ "sshOut" \in Facet /\ Facets["sshOut"] = {"allowed", "missing"} /\ Sound["sshOut"] = "allowed"
    /\ "outgoing" \in Facet /\ Facets["outgoing"] = {"deny", "allow"} /\ Sound["outgoing"] = "deny"
    /\ "login" \in Facet /\ Facets["login"] = {"hard", "soft", "overridden"} /\ Sound["login"] = "hard"
    /\ "forward" \in Facet /\ Facets["forward"] = {"hard", "soft"} /\ Sound["forward"] = "hard"
    /\ "units" \in Facet /\ Facets["units"] = {"healthy", "failed"} /\ Sound["units"] = "healthy"
    /\ "openssh" \in Facet /\ Facets["openssh"] = {"masked", "on", "used"} /\ Sound["openssh"] = "masked"
    /\ "gh" \in Facet /\ Facets["gh"] = {"stored", "other", "rejected", "absent", "unverified"} /\ Sound["gh"] = "stored"
    /\ "tools" \in Facet /\ Facets["tools"] = {"good", "bad"} /\ Sound["tools"] = "good"
    /\ "packages" \in Facet /\ Facets["packages"] = {"current", "old", "unseen"} /\ Sound["packages"] = "current"
    /\ "mesh" \in Facet /\ Facets["mesh"] = {"current", "old"} /\ Sound["mesh"] = "current"
    /\ "kernel" \in Facet /\ Facets["kernel"] = {"running", "pending"} /\ Sound["kernel"] = "running"
    /\ "gate" \in Facet /\ Facets["gate"] = {"installed", "differs"} /\ Sound["gate"] = "installed"
    /\ "workload" \in Facet /\ Facets["workload"] = {"declared", "gap"} /\ Sound["workload"] = "declared"
    /\ "accounts" \in Facet /\ Facets["accounts"] = SUBSET {"image", "extra", "narrow"} /\ Sound["accounts"] = {}
    /\ "userData" \in Facet /\ Facets["userData"] = {"none", "formerHash", "currentHash"} /\ Sound["userData"] = "none"
    /\ "serve" \in Facet /\ Facets["serve"] = SUBSET {"funnel", "backend", "listener"} /\ Sound["serve"] = {}
    /\ "connector" \in Facet /\ Facets["connector"] = {"current", "old", "live"} /\ Sound["connector"] = "current"
    /\ "pin" \in Facet /\ Facets["pin"] = {"set", "missing"} /\ Sound["pin"] = "set"
<1>1. "sudo" \in Facet /\ Facets["sudo"] = {"password", "nopasswd"} /\ Sound["sudo"] = "password"
  BY DEF Facet, Facets, Sound, Shared, SoundShared, Plain, ReadOnly, Simple
<1>2. "hash" \in Facet /\ Facets["hash"] = {"strong", "legacy"} /\ Sound["hash"] = "strong"
  BY DEF Facet, Facets, Sound, Shared, SoundShared, Plain, ReadOnly, Simple
<1>3. "ufw" \in Facet /\ Facets["ufw"] = {"active", "inactive"} /\ Sound["ufw"] = "active"
  BY DEF Facet, Facets, Sound, Shared, SoundShared, Plain, ReadOnly, Simple
<1>4. "incoming" \in Facet /\ Facets["incoming"] = {"deny", "allow"} /\ Sound["incoming"] = "deny"
  BY DEF Facet, Facets, Sound, Shared, SoundShared, Plain, ReadOnly, Simple
<1>5. "sshRule" \in Facet /\ Facets["sshRule"] = {"none", "allowed"} /\ Sound["sshRule"] = "none"
  BY DEF Facet, Facets, Sound, Shared, SoundShared, Plain, ReadOnly, Simple
<1>6. "sshOut" \in Facet /\ Facets["sshOut"] = {"allowed", "missing"} /\ Sound["sshOut"] = "allowed"
  BY DEF Facet, Facets, Sound, Shared, SoundShared, Plain, ReadOnly, Simple
<1>7. "outgoing" \in Facet /\ Facets["outgoing"] = {"deny", "allow"} /\ Sound["outgoing"] = "deny"
  BY DEF Facet, Facets, Sound, Shared, SoundShared, Plain, ReadOnly, Simple
<1>8. "login" \in Facet /\ Facets["login"] = {"hard", "soft", "overridden"} /\ Sound["login"] = "hard"
  BY DEF Facet, Facets, Sound, Shared, SoundShared, Plain, ReadOnly, Simple
<1>9. "forward" \in Facet /\ Facets["forward"] = {"hard", "soft"} /\ Sound["forward"] = "hard"
  BY DEF Facet, Facets, Sound, Shared, SoundShared, Plain, ReadOnly, Simple
<1>10. "units" \in Facet /\ Facets["units"] = {"healthy", "failed"} /\ Sound["units"] = "healthy"
  BY DEF Facet, Facets, Sound, Shared, SoundShared, Plain, ReadOnly, Simple
<1>11. "openssh" \in Facet /\ Facets["openssh"] = {"masked", "on", "used"} /\ Sound["openssh"] = "masked"
  BY DEF Facet, Facets, Sound, Shared, SoundShared, Plain, ReadOnly, Simple
<1>12. "gh" \in Facet /\ Facets["gh"] = {"stored", "other", "rejected", "absent", "unverified"} /\ Sound["gh"] = "stored"
  BY DEF Facet, Facets, Sound, Shared, SoundShared, Plain, ReadOnly, Simple
<1>13. "tools" \in Facet /\ Facets["tools"] = {"good", "bad"} /\ Sound["tools"] = "good"
  BY DEF Facet, Facets, Sound, Shared, SoundShared, Plain, ReadOnly, Simple
<1>14. "packages" \in Facet /\ Facets["packages"] = {"current", "old", "unseen"} /\ Sound["packages"] = "current"
  BY DEF Facet, Facets, Sound, Shared, SoundShared, Plain, ReadOnly, Simple
<1>15. "mesh" \in Facet /\ Facets["mesh"] = {"current", "old"} /\ Sound["mesh"] = "current"
  BY DEF Facet, Facets, Sound, Shared, SoundShared, Plain, ReadOnly, Simple
<1>16. "kernel" \in Facet /\ Facets["kernel"] = {"running", "pending"} /\ Sound["kernel"] = "running"
  BY DEF Facet, Facets, Sound, Shared, SoundShared, Plain, ReadOnly, Simple
<1>17. "gate" \in Facet /\ Facets["gate"] = {"installed", "differs"} /\ Sound["gate"] = "installed"
  BY DEF Facet, Facets, Sound, Shared, SoundShared, Plain, ReadOnly, Simple
<1>18. "workload" \in Facet /\ Facets["workload"] = {"declared", "gap"} /\ Sound["workload"] = "declared"
  BY DEF Facet, Facets, Sound, Shared, SoundShared, Plain, ReadOnly, Simple
<1>19. "accounts" \in Facet /\ Facets["accounts"] = SUBSET {"image", "extra", "narrow"} /\ Sound["accounts"] = {}
  BY DEF Facet, Facets, Sound, Shared, SoundShared, Plain, ReadOnly, Simple
<1>20. "userData" \in Facet /\ Facets["userData"] = {"none", "formerHash", "currentHash"} /\ Sound["userData"] = "none"
  BY DEF Facet, Facets, Sound, Shared, SoundShared, Plain, ReadOnly, Simple
<1>21. "serve" \in Facet /\ Facets["serve"] = SUBSET {"funnel", "backend", "listener"} /\ Sound["serve"] = {}
  BY DEF Facet, Facets, Sound, Shared, SoundShared, Plain, ReadOnly, Simple
<1>22. "connector" \in Facet /\ Facets["connector"] = {"current", "old", "live"} /\ Sound["connector"] = "current"
  BY DEF Facet, Facets, Sound, Shared, SoundShared, Plain, ReadOnly, Simple
<1>23. "pin" \in Facet /\ Facets["pin"] = {"set", "missing"} /\ Sound["pin"] = "set"
  BY DEF Facet, Facets, Sound, Shared, SoundShared, Plain, ReadOnly, Simple
<1> QED
  BY <1>1, <1>2, <1>3, <1>4, <1>5, <1>6, <1>7, <1>8, <1>9, <1>10, <1>11, <1>12, <1>13, <1>14, <1>15, <1>16, <1>17, <1>18, <1>19, <1>20, <1>21, <1>22, <1>23

(* A host has a value of its own in every facet. *)
LEMMA HostFacet ==
    ASSUME NEW h \in Host, NEW f \in Facet
    PROVE  h[f] \in Facets[f]
BY DEF Host

LEMMA FacetValue ==
    ASSUME NEW f \in Facet, NEW v \in Facets[f]
    PROVE  v \in Value
BY DEF Value

OneSet(h, f, v, r) == r \in Host /\ r[f] = v /\ \A g \in Facet \ {f} : r[g] = h[g]

(* What each repair makes of a host, and when it reports success. *)
LEMMA SimpleEffect ==
    ASSUME NEW h \in Host, NEW c \in Simple, NEW a \in Repaired(c, h)
    PROVE  OneSet(h, c, "good", a[1]) /\ a[2] = TRUE
<1>1. Repaired(c, h) = Done([h EXCEPT ![c] = "good"])
  <2>1. CASE c = "apparmor"
    BY <2>1, Zenon DEF Repaired, Simple
  <2>2. CASE c = "upgrades"
    BY <2>2, Zenon DEF Repaired, Simple
  <2>3. CASE c = "journald"
    BY <2>3, Zenon DEF Repaired, Simple
  <2>4. CASE c = "apt config"
    BY <2>4, Zenon DEF Repaired, Simple
  <2>5. CASE c = "git identity"
    BY <2>5, Zenon DEF Repaired, Simple
  <2> QED
    BY <2>1, <2>2, <2>3, <2>4, <2>5 DEF Simple
<1>2. PICK r : r = [h EXCEPT ![c] = "good"]
  OBVIOUS
<1>3. a = <<r, TRUE>>
  BY <1>1, <1>2 DEF Done
<1>4. c \in Facet /\ "good" \in Facets[c] /\ "good" \in Value
  BY PlainFacet, FacetValue DEF Plain
<1>5. h \in [Facet -> Value]
  BY DEF Host
<1>6. r \in [Facet -> Value] /\ r[c] = "good" /\ \A g \in Facet \ {c} : r[g] = h[g]
  BY <1>2, <1>4, <1>5
<1>7. r \in Host
  <2>1. \A f \in Facet : r[f] \in Facets[f]
    BY <1>4, <1>6, HostFacet
  <2> QED
    BY <2>1, <1>6 DEF Host
<1> QED
  BY <1>3, <1>6, <1>7 DEF OneSet

LEMMA PasswordEffect ==
    ASSUME NEW h \in Host, NEW c \in {"sudo", "hash"}, NEW a \in Repaired(c, h)
    PROVE  /\ a[1] \in Host /\ a[1].sudo = "password" /\ a[1].hash = "strong"
           /\ a[1].userData = IF h.userData = "currentHash" THEN "formerHash" ELSE h.userData
           /\ (\A g \in Facet \ {"sudo", "hash", "userData"} : a[1][g] = h[g])
           /\ a[2] = TRUE
<1>1. Repaired(c, h) = PasswordRepair(h)
  BY Zenon DEF Repaired, Simple
<1>2. PICK r : r = [h EXCEPT !.sudo = "password", !.hash = "strong",
    !.userData = IF @ = "currentHash" THEN "formerHash" ELSE @]
  OBVIOUS
<1>3. a = <<r, TRUE>>
  BY <1>1, <1>2 DEF Done, PasswordRepair
<1>4. PICK u : u = IF h.userData = "currentHash" THEN "formerHash" ELSE h.userData
  OBVIOUS
<1>5. r = [h EXCEPT !["sudo"] = "password", !["hash"] = "strong", !["userData"] = u]
  BY <1>2, <1>4
<1>6. u \in Facets["userData"] /\ "password" \in Facets["sudo"] /\ "strong" \in Facets["hash"]
  BY <1>4, FacetValues, HostFacet
<1>7. {"sudo", "hash", "userData"} \subseteq Facet
  BY FacetValues
<1>8. u \in Value /\ "password" \in Value /\ "strong" \in Value
  BY <1>6, <1>7, FacetValue
<1>9. h \in [Facet -> Value]
  BY DEF Host
<1>10. /\ r \in [Facet -> Value] /\ r["sudo"] = "password" /\ r["hash"] = "strong" /\ r["userData"] = u
       /\ \A x \in Facet \ {"sudo", "hash", "userData"} : r[x] = h[x]
  BY <1>5, <1>7, <1>8, <1>9
<1>11. r \in Host
  <2>1. \A f \in Facet : r[f] \in Facets[f]
    BY <1>6, <1>10, HostFacet
  <2> QED
    BY <2>1, <1>10 DEF Host
<1> QED
  BY <1>3, <1>4, <1>10, <1>11

With(h, f, v) == [h EXCEPT ![f] = v]

LEMMA Update ==
    ASSUME NEW h \in Host, NEW f \in Facet, NEW v \in Facets[f], NEW r, r = With(h, f, v)
    PROVE  OneSet(h, f, v, r)
<1>1. h \in [Facet -> Value] /\ v \in Value
  BY FacetValue DEF Host
<1>2. r \in [Facet -> Value] /\ r[f] = v /\ \A g \in Facet \ {f} : r[g] = h[g]
  BY <1>1 DEF With
<1>3. \A x \in Facet : r[x] \in Facets[x]
  BY <1>2, HostFacet
<1> QED
  BY <1>2, <1>3 DEF Host, OneSet

LEMMA OneSetHost ==
    ASSUME NEW h, NEW f, NEW v, NEW r, OneSet(h, f, v, r)
    PROVE  r \in Host
BY DEF OneSet

LEMMA ActiveEffect ==
    ASSUME NEW h \in Host, NEW a \in Repaired("ufw active", h)
    PROVE  /\ a[1] \in Host /\ a[1].ufw = "active" /\ a[2] = TRUE
           /\ \A g \in Facet \ {"ufw"} : a[1][g] = h[g]
<1>1. Repaired("ufw active", h) = Done([h EXCEPT !.ufw = "active"])
  BY Zenon DEF Repaired, Simple, UfwRepair
<1>v. PICK f, v : f = "ufw" /\ v = "active"
  OBVIOUS
<1>2. PICK r : r = With(h, f, v)
  OBVIOUS
<1>3. a = <<r, TRUE>>
  BY <1>1, <1>v, <1>2 DEF Done, With
<1>4. f \in Facet /\ v \in Facets[f]
  BY <1>v, FacetValues
<1>5. OneSet(h, f, v, r)
  BY <1>2, <1>4, Update
<1> QED
  BY <1>v, <1>3, <1>5 DEF OneSet

LEMMA DenyEffect ==
    ASSUME NEW h \in Host, NEW a \in Repaired("ufw deny", h)
    PROVE  /\ a[1] \in Host /\ a[1].incoming = "deny" /\ a[2] = TRUE
           /\ \A g \in Facet \ {"incoming"} : a[1][g] = h[g]
<1>1. Repaired("ufw deny", h) = Done([h EXCEPT !.incoming = "deny"])
  BY Zenon DEF Repaired, Simple, UfwRepair
<1>v. PICK f, v : f = "incoming" /\ v = "deny"
  OBVIOUS
<1>2. PICK r : r = With(h, f, v)
  OBVIOUS
<1>3. a = <<r, TRUE>>
  BY <1>1, <1>v, <1>2 DEF Done, With
<1>4. f \in Facet /\ v \in Facets[f]
  BY <1>v, FacetValues
<1>5. OneSet(h, f, v, r)
  BY <1>2, <1>4, Update
<1> QED
  BY <1>v, <1>3, <1>5 DEF OneSet

LEMMA RuleEffect ==
    ASSUME NEW h \in Host, NEW a \in Repaired("ufw ssh", h)
    PROVE  /\ a[1] \in Host /\ a[1].sshRule = "none" /\ a[2] = TRUE
           /\ \A g \in Facet \ {"sshRule"} : a[1][g] = h[g]
<1>1. Repaired("ufw ssh", h) = Done([h EXCEPT !.sshRule = "none"])
  BY Zenon DEF Repaired, Simple, UfwRepair
<1>v. PICK f, v : f = "sshRule" /\ v = "none"
  OBVIOUS
<1>2. PICK r : r = With(h, f, v)
  OBVIOUS
<1>3. a = <<r, TRUE>>
  BY <1>1, <1>v, <1>2 DEF Done, With
<1>4. f \in Facet /\ v \in Facets[f]
  BY <1>v, FacetValues
<1>5. OneSet(h, f, v, r)
  BY <1>2, <1>4, Update
<1> QED
  BY <1>v, <1>3, <1>5 DEF OneSet

LEMMA UnitsEffect ==
    ASSUME NEW h \in Host, NEW a \in Repaired("units", h)
    PROVE  /\ a[1] \in Host /\ a[1].units = "healthy" /\ a[2] = TRUE
           /\ \A g \in Facet \ {"units"} : a[1][g] = h[g]
<1>1. Repaired("units", h) = Done([h EXCEPT !.units = "healthy"])
  BY Zenon DEF Repaired, Simple, SshdUnitsRepair
<1>v. PICK f, v : f = "units" /\ v = "healthy"
  OBVIOUS
<1>2. PICK r : r = With(h, f, v)
  OBVIOUS
<1>3. a = <<r, TRUE>>
  BY <1>1, <1>v, <1>2 DEF Done, With
<1>4. f \in Facet /\ v \in Facets[f]
  BY <1>v, FacetValues
<1>5. OneSet(h, f, v, r)
  BY <1>2, <1>4, Update
<1> QED
  BY <1>v, <1>3, <1>5 DEF OneSet

LEMMA GateEffect ==
    ASSUME NEW h \in Host, NEW a \in Repaired("reboot survivability", h)
    PROVE  /\ a[1] \in Host /\ a[1].gate = "installed" /\ a[2] = TRUE
           /\ \A g \in Facet \ {"gate"} : a[1][g] = h[g]
<1>1. Repaired("reboot survivability", h) = Done([h EXCEPT !.gate = "installed"])
  BY Zenon DEF Repaired, Simple
<1>v. PICK f, v : f = "gate" /\ v = "installed"
  OBVIOUS
<1>2. PICK r : r = With(h, f, v)
  OBVIOUS
<1>3. a = <<r, TRUE>>
  BY <1>1, <1>v, <1>2 DEF Done, With
<1>4. f \in Facet /\ v \in Facets[f]
  BY <1>v, FacetValues
<1>5. OneSet(h, f, v, r)
  BY <1>2, <1>4, Update
<1> QED
  BY <1>v, <1>3, <1>5 DEF OneSet

LEMMA PinEffect ==
    ASSUME NEW h \in Host, NEW a \in Repaired("pin", h)
    PROVE  /\ a[1] \in Host /\ a[1].pin = "set" /\ a[2] = TRUE
           /\ \A g \in Facet \ {"pin"} : a[1][g] = h[g]
<1>1. Repaired("pin", h) = Done([h EXCEPT !.pin = "set"])
  BY Zenon DEF Repaired, Simple
<1>v. PICK f, v : f = "pin" /\ v = "set"
  OBVIOUS
<1>2. PICK r : r = With(h, f, v)
  OBVIOUS
<1>3. a = <<r, TRUE>>
  BY <1>1, <1>v, <1>2 DEF Done, With
<1>4. f \in Facet /\ v \in Facets[f]
  BY <1>v, FacetValues
<1>5. OneSet(h, f, v, r)
  BY <1>2, <1>4, Update
<1> QED
  BY <1>v, <1>3, <1>5 DEF OneSet

LEMMA TokenEffect ==
    ASSUME NEW h \in Host, NEW a \in Repaired("gh token", h)
    PROVE  /\ a[1] \in Host /\ \A g \in Facet \ {"gh"} : a[1][g] = h[g]
           /\ opt.pat = "live" => a[1].gh = "stored" /\ a[2] = TRUE
           /\ opt.pat # "live" => a[1].gh = h.gh
<1>1. Repaired("gh token", h) = GhRepair(h)
  BY Zenon DEF Repaired, Simple
<1>2. CASE opt.pat = "live"
  <2>v. PICK f, v : f = "gh" /\ v = "stored"
    OBVIOUS
  <2>1. PICK r : r = With(h, f, v)
    OBVIOUS
  <2>2. a = <<r, TRUE>>
    BY <1>1, <1>2, <2>v, <2>1 DEF Done, GhRepair, With
  <2>3. f \in Facet /\ v \in Facets[f]
    BY <2>v, FacetValues
  <2>4. OneSet(h, f, v, r)
    BY <2>1, <2>3, Update
  <2> QED
    BY <1>2, <2>v, <2>2, <2>4 DEF OneSet
<1>3. CASE opt.pat # "live"
  <2>1. a = <<h, FALSE>>
    BY <1>1, <1>3 DEF GhRepair, Refused
  <2> QED
    BY <1>3, <2>1
<1> QED
  BY <1>2, <1>3

LEMMA AccountEffect ==
    ASSUME NEW h \in Host, NEW a \in Repaired("accounts", h)
    PROVE  /\ a[1] \in Host /\ a[1].accounts = h.accounts \ {"image"} /\ a[2] = TRUE
           /\ \A g \in Facet \ {"accounts"} : a[1][g] = h[g]
<1>1. Repaired("accounts", h) = AccountRepair(h)
  BY Zenon DEF Repaired, Simple
<1>2. PICK r : r = [h EXCEPT !.accounts = @ \ {"image"}]
  OBVIOUS
<1>3. a = <<r, TRUE>>
  BY <1>1, <1>2 DEF Done, AccountRepair
<1>4. PICK v : v = h.accounts \ {"image"}
  OBVIOUS
<1>5. r = With(h, "accounts", v)
  BY <1>2, <1>4 DEF With
<1>6. "accounts" \in Facet /\ v \in Facets["accounts"]
  BY <1>4, FacetValues, HostFacet
<1>7. OneSet(h, "accounts", v, r)
  BY <1>5, <1>6, Update
<1> QED
  BY <1>3, <1>4, <1>7 DEF OneSet

LEMMA LockdownEffect ==
    ASSUME NEW h \in Host, NEW c \in {"ufw ssh egress", "egress restricted"}, NEW a \in Repaired(c, h)
    PROVE  /\ a[1] \in Host /\ a[1].outgoing = "deny" /\ a[1].sshOut = "allowed"
           /\ \A g \in Facet \ {"outgoing", "sshOut"} : a[1][g] = h[g]
           /\ h.ufw = "active" => a[2] = TRUE
<1>1. Repaired(c, h) = LockdownRepair(h)
  <2>1. CASE c = "ufw ssh egress"
    BY <2>1, Zenon DEF Repaired, Simple
  <2>2. CASE c = "egress restricted"
    BY <2>2, Zenon DEF Repaired, Simple
  <2> QED
    BY <2>1, <2>2
<1>v. PICK f, g, v, w : f = "outgoing" /\ g = "sshOut" /\ v = "deny" /\ w = "allowed"
  OBVIOUS
<1>2. PICK s : s = With(h, f, v)
  OBVIOUS
<1>3. PICK r : r = With(s, g, w)
  OBVIOUS
<1>4. a = <<r, h.ufw = "active">>
  <2>1. [h EXCEPT !.outgoing = "deny", !.sshOut = "allowed"] = r
    BY <1>v, <1>2, <1>3 DEF With
  <2> QED
    BY <1>1, <2>1 DEF LockdownRepair
<1>5. f \in Facet /\ v \in Facets[f] /\ g \in Facet /\ w \in Facets[g]
  BY <1>v, FacetValues
<1>6. OneSet(h, f, v, s)
  BY <1>2, <1>5, Update
<1>7. OneSet(s, g, w, r)
  BY <1>3, <1>5, <1>6, Update, OneSetHost
<1> QED
  BY <1>v, <1>4, <1>5, <1>6, <1>7 DEF OneSet

LEMMA OpenSSHEffect ==
    ASSUME NEW h \in Host, NEW a \in Repaired("openssh", h)
    PROVE  /\ a[1] \in Host /\ \A g \in Facet \ {"openssh", "units"} : a[1][g] = h[g]
           /\ h.openssh # "used" =>
                a[1].openssh = "masked" /\ a[1].units = "healthy" /\ a[2] = TRUE
           /\ h.openssh = "used" => a[1] = h
<1>1. Repaired("openssh", h) = OpenSSHRepair(h)
  BY Zenon DEF Repaired, Simple
<1>2. CASE h.openssh = "used"
  <2>1. a = <<h, FALSE>>
    BY <1>1, <1>2 DEF OpenSSHRepair, Refused
  <2> QED
    BY <1>2, <2>1
<1>3. CASE h.openssh # "used"
  <2>1. PICK s : s = With(h, "openssh", "masked")
    OBVIOUS
  <2>2. PICK r : r = With(s, "units", "healthy")
    OBVIOUS
  <2>3. a = <<r, TRUE>>
    <3>1. [h EXCEPT !.openssh = "masked", !.units = "healthy"] = r
      BY <2>1, <2>2 DEF With
    <3> QED
      BY <1>1, <1>3, <3>1 DEF OpenSSHRepair, Done
  <2>4. /\ "openssh" \in Facet /\ "masked" \in Facets["openssh"]
        /\ "units" \in Facet /\ "healthy" \in Facets["units"]
    BY FacetValues
  <2>5. OneSet(h, "openssh", "masked", s)
    BY <2>1, <2>4, Update
  <2>6. OneSet(s, "units", "healthy", r)
    BY <2>2, <2>4, <2>5, Update, OneSetHost
  <2> QED
    BY <1>3, <2>3, <2>4, <2>5, <2>6 DEF OneSet
<1> QED
  BY <1>2, <1>3

LEMMA ConnectorEffect ==
    ASSUME NEW h \in Host, NEW a \in Repaired("connector", h)
    PROVE  /\ a[1] \in Host /\ a[1].pin = "set" /\ a[2] = TRUE
           /\ a[1].connector = "current" \/ (a[1].connector = h.connector /\ h.connector # "old")
           /\ \A g \in Facet \ {"connector", "pin"} : a[1][g] = h[g]
<1>1. Repaired("connector", h) = ConnectorRepair(h)
  BY Zenon DEF Repaired, Simple
<1>2. PICK v : v = IF cfg.tunnel \/ h.connector = "old" THEN "current" ELSE h.connector
  OBVIOUS
<1>3. PICK s : s = With(h, "connector", v)
  OBVIOUS
<1>4. PICK r : r = With(s, "pin", "set")
  OBVIOUS
<1>5. a = <<r, TRUE>>
  <2>1. [h EXCEPT !.connector = IF cfg.tunnel \/ @ = "old" THEN "current" ELSE @, !.pin = "set"] = r
    BY <1>2, <1>3, <1>4 DEF With
  <2> QED
    BY <1>1, <2>1 DEF ConnectorRepair, Done
<1>6. "connector" \in Facet /\ v \in Facets["connector"] /\ "pin" \in Facet /\ "set" \in Facets["pin"]
  BY <1>2, FacetValues, HostFacet
<1>7. OneSet(h, "connector", v, s)
  BY <1>3, <1>6, Update
<1>8. OneSet(s, "pin", "set", r)
  BY <1>4, <1>6, <1>7, Update, OneSetHost
<1>9. v = "current" \/ (v = h.connector /\ h.connector # "old")
  BY <1>2
<1> QED
  BY <1>5, <1>6, <1>7, <1>8, <1>9 DEF OneSet

LEMMA SettingsEffect ==
    ASSUME NEW h \in Host, NEW c \in {"login", "forward"}, NEW a \in Repaired(c, h)
    PROVE  /\ a[1] \in Host /\ a[1].forward = "hard"
           /\ a[1].login = IF h.login = "soft" THEN "hard" ELSE h.login
           /\ h.openssh = "masked" => a[1].units = h.units
           /\ \A g \in Facet \ {"login", "forward", "units"} : a[1][g] = h[g]
           /\ h.login # "overridden" => a[2] = TRUE
<1>1. Repaired(c, h) = SshdSettingsRepair(h)
  <2>1. CASE c = "login"
    BY <2>1, Zenon DEF Repaired, Simple
  <2>2. CASE c = "forward"
    BY <2>2, Zenon DEF Repaired, Simple
  <2> QED
    BY <2>1, <2>2
<1>2. PICK v : v = IF h.login = "soft" THEN "hard" ELSE h.login
  OBVIOUS
<1>3. PICK s : s = With(h, "login", v)
  OBVIOUS
<1>4. PICK t : t = With(s, "forward", "hard")
  OBVIOUS
<1>5. [h EXCEPT !.login = IF @ = "soft" THEN "hard" ELSE @, !.forward = "hard"] = t
  BY <1>2, <1>3, <1>4 DEF With
<1>6. PICK u \in IF h.openssh = "masked" THEN {h.units} ELSE {h.units, "failed"} :
        a = <<[t EXCEPT !.units = u], h.login # "overridden">>
  BY <1>1, <1>5, Zenon DEF SshdSettingsRepair
<1>7. PICK r : r = With(t, "units", u)
  OBVIOUS
<1>8. /\ "login" \in Facet /\ v \in Facets["login"] /\ "forward" \in Facet /\ "hard" \in Facets["forward"]
      /\ "units" \in Facet /\ u \in Facets["units"]
  BY <1>2, FacetValues, HostFacet
<1>9. OneSet(h, "login", v, s)
  BY <1>3, <1>8, Update
<1>10. OneSet(s, "forward", "hard", t)
  BY <1>4, <1>8, <1>9, Update, OneSetHost
<1>11. OneSet(t, "units", u, r)
  BY <1>7, <1>8, <1>10, Update, OneSetHost
<1>12. a[1] = r /\ a[2] = (h.login # "overridden")
  BY <1>6, <1>7 DEF With
<1>13. h.openssh = "masked" => u = h.units
  OBVIOUS
<1> QED
  BY <1>2, <1>8, <1>9, <1>10, <1>11, <1>12, <1>13 DEF OneSet

LEMMA ToolEffect ==
    ASSUME NEW h \in Host, NEW a \in Repaired("tools", h)
    PROVE  /\ a[1] \in Host /\ a[1].mesh = "current"
           /\ \A g \in Facet \ {"tools", "packages", "mesh"} : a[1][g] = h[g]
           /\ a[1].tools = h.tools \/ a[1].tools = "good"
           /\ \/ a[1].packages = h.packages
              \/ a[1].packages = "current"
              \/ h.packages = "unseen"
           /\ h.gh # "rejected" =>
                a[1].tools = "good" /\ a[1].packages = "current" /\ a[2] = TRUE
<1>1. Repaired("tools", h) = ToolRepair(h)
  BY Zenon DEF Repaired, Simple
<1> DEFINE apply == h.tools = "bad" \/ h.packages # "current"
           able == h.gh # "rejected"
<1>2. PICK t, p :
        /\ t = IF apply /\ able THEN "good" ELSE h.tools
        /\ p = IF apply /\ able THEN "current"
               ELSE IF h.packages = "unseen" THEN "old" ELSE h.packages
  OBVIOUS
<1>3. PICK s : s = With(h, "tools", t)
  OBVIOUS
<1>4. PICK b : b = With(s, "packages", p)
  OBVIOUS
<1>5. PICK r : r = With(b, "mesh", "current")
  OBVIOUS
<1>6. "tools" \in Facet /\ "packages" \in Facet /\ "mesh" \in Facet
  BY FacetValues
<1>7. t \in Facets["tools"] /\ p \in Facets["packages"] /\ "current" \in Facets["mesh"]
  BY <1>2, FacetValues, HostFacet
<1>8. OneSet(h, "tools", t, s)
  BY <1>3, <1>6, <1>7, Update, OneSetHost
<1>9. OneSet(s, "packages", p, b)
  BY <1>4, <1>6, <1>7, <1>8, Update, OneSetHost
<1>10. OneSet(b, "mesh", "current", r)
  BY <1>5, <1>6, <1>7, <1>9, Update, OneSetHost
<1>11. a = <<r, able \/ ~apply>>
  <2>1. CASE apply /\ able
    <3>1. [h EXCEPT !.tools = "good", !.packages = "current"] = b
      BY <1>2, <1>3, <1>4, <2>1 DEF With
    <3>2. a = <<[[h EXCEPT !.tools = "good", !.packages = "current"] EXCEPT !.mesh = "current"],
                able \/ ~apply>>
      BY <1>1, <2>1, Zenon DEF ToolRepair
    <3> QED
      BY <3>1, <3>2, <1>5 DEF With
  <2>2. CASE ~(apply /\ able)
    <3>1. [h EXCEPT !.packages = IF @ = "unseen" THEN "old" ELSE @] = b
      <4>1. t = h.tools /\ p = IF h.packages = "unseen" THEN "old" ELSE h.packages
        BY <1>2, <2>2
      <4>2. s = h
        BY <1>3, <4>1 DEF Host, With
      <4> QED
        BY <1>4, <4>1, <4>2 DEF With
    <3>2. a = <<[[h EXCEPT !.packages = IF @ = "unseen" THEN "old" ELSE @] EXCEPT !.mesh = "current"],
                able \/ ~apply>>
      BY <1>1, <2>2, Zenon DEF ToolRepair
    <3> QED
      BY <3>1, <3>2, <1>5 DEF With
  <2> QED
    BY <2>1, <2>2
<1>12. h.tools \in {"good", "bad"} /\ h.packages \in {"current", "old", "unseen"}
  BY FacetValues, HostFacet
<1>13. a[1] = r /\ a[2] = (able \/ ~apply)
  BY <1>11
<1>14. r.tools = t /\ r.packages = p
  BY <1>6, <1>8, <1>9, <1>10 DEF OneSet
<1> QED
  BY <1>2, <1>6, <1>8, <1>9, <1>10, <1>12, <1>13, <1>14 DEF OneSet

Scripted ==
    Simple \union {"sudo", "hash", "ufw active", "ufw deny", "ufw ssh", "login", "forward", "units",
                   "gh token", "tools", "ufw ssh egress", "egress restricted", "openssh",
                   "reboot survivability", "accounts", "connector", "pin"}
Listed == Plain \union Scripted \union {"reboot pending", "user-data", "serve", "ingress"}

(* A check that has a script is one of those whose repair is known. *)
LEMMA ScriptedNames ==
    ASSUME NEW c \in Listed, Script(c) # "none"
    PROVE  c \in Scripted
BY DEF Script, Listed, Plain, Scripted

(* What a repair keeps: it only settles facets, ... *)
Keeps(c, h, r) ==
    /\ r \in Host /\ Settled(h, r) /\ r.platform = h.platform
    /\ r.gh # h.gh => c = "gh token" /\ opt.pat = "live"
    /\ r.openssh # h.openssh => c = "openssh"
    /\ Script(c) # "sshd settings" /\ h.units = "healthy" => r.units = "healthy"

(* The facets that other repairs rely on are not special ones. *)
LEMMA WatchedFacets ==
    {"platform", "gh", "openssh", "units", "accounts", "userData", "packages"} \subseteq Facet
<1>1. "platform" \in Facet
  BY PlainFacet DEF Plain
<1> QED
  BY <1>1, FacetValues

LEMMA SimpleKeeps ==
    ASSUME NEW h \in Host, NEW c \in Simple, NEW a \in Repaired(c, h)
    PROVE  Keeps(c, h, a[1])
<1>1. PICK r : r = a[1]
  OBVIOUS
<1>2. c \in Facet /\ Sound[c] = "good" /\ c \in Plain
  BY PlainFacet DEF Plain
<1>3. r \in Host /\ r[c] = "good" /\ \A g \in Facet \ {c} : r[g] = h[g]
  <2>1. OneSet(h, c, "good", a[1])
    BY SimpleEffect
  <2> QED
    BY <1>1, <2>1 DEF OneSet
<1>4. \A f \in Facet \ Special : r[f] = h[f] \/ r[f] = Sound[f]
  BY <1>2, <1>3
<1>5. c \notin {"platform", "gh", "openssh", "units", "accounts", "userData", "packages"}
  BY DEF Simple
<1>6. /\ r.platform = h.platform /\ r.gh = h.gh /\ r.openssh = h.openssh /\ r.units = h.units
      /\ r.accounts = h.accounts /\ r.userData = h.userData /\ r.packages = h.packages
  BY <1>3, <1>5, WatchedFacets
<1> QED
  BY <1>1, <1>3, <1>4, <1>6 DEF Keeps, Settled

LEMMA PasswordKeeps ==
    ASSUME NEW h \in Host, NEW c \in {"sudo", "hash"}, NEW a \in Repaired(c, h)
    PROVE  Keeps(c, h, a[1])
<1>1. PICK r : r = a[1]
  OBVIOUS
<1>2. Sound["sudo"] = "password" /\ Sound["hash"] = "strong"
  BY FacetValues
<1>3. /\ r \in Host
      /\ r.sudo = "password"
      /\ r.hash = "strong"
      /\ r.userData = IF h.userData = "currentHash" THEN "formerHash" ELSE h.userData
      /\ \A g \in Facet \ {"sudo", "hash", "userData"} : r[g] = h[g]
  BY <1>1, PasswordEffect
<1>4. \A f \in Facet \ Special : r[f] = h[f] \/ r[f] = Sound[f]
  BY <1>2, <1>3 DEF Special
<1>5. r.platform = h.platform /\ r.gh = h.gh /\ r.openssh = h.openssh /\ r.units = h.units /\ r.accounts = h.accounts /\ r.packages = h.packages
  BY <1>3, WatchedFacets
<1> QED
  BY <1>1, <1>3, <1>4, <1>5 DEF Keeps, Settled

LEMMA ActiveKeeps ==
    ASSUME NEW h \in Host, NEW a \in Repaired("ufw active", h)
    PROVE  Keeps("ufw active", h, a[1])
<1>1. PICK r : r = a[1]
  OBVIOUS
<1>2. Sound["ufw"] = "active"
  BY FacetValues
<1>3. /\ r \in Host
      /\ r.ufw = "active"
      /\ \A g \in Facet \ {"ufw"} : r[g] = h[g]
  BY <1>1, ActiveEffect
<1>4. \A f \in Facet \ Special : r[f] = h[f] \/ r[f] = Sound[f]
  BY <1>2, <1>3
<1>5. r.platform = h.platform /\ r.gh = h.gh /\ r.openssh = h.openssh /\ r.units = h.units /\ r.accounts = h.accounts /\ r.userData = h.userData /\ r.packages = h.packages
  BY <1>3, WatchedFacets
<1> QED
  BY <1>1, <1>3, <1>4, <1>5 DEF Keeps, Settled

LEMMA DenyKeeps ==
    ASSUME NEW h \in Host, NEW a \in Repaired("ufw deny", h)
    PROVE  Keeps("ufw deny", h, a[1])
<1>1. PICK r : r = a[1]
  OBVIOUS
<1>2. Sound["incoming"] = "deny"
  BY FacetValues
<1>3. /\ r \in Host
      /\ r.incoming = "deny"
      /\ \A g \in Facet \ {"incoming"} : r[g] = h[g]
  BY <1>1, DenyEffect
<1>4. \A f \in Facet \ Special : r[f] = h[f] \/ r[f] = Sound[f]
  BY <1>2, <1>3
<1>5. r.platform = h.platform /\ r.gh = h.gh /\ r.openssh = h.openssh /\ r.units = h.units /\ r.accounts = h.accounts /\ r.userData = h.userData /\ r.packages = h.packages
  BY <1>3, WatchedFacets
<1> QED
  BY <1>1, <1>3, <1>4, <1>5 DEF Keeps, Settled

LEMMA RuleKeeps ==
    ASSUME NEW h \in Host, NEW a \in Repaired("ufw ssh", h)
    PROVE  Keeps("ufw ssh", h, a[1])
<1>1. PICK r : r = a[1]
  OBVIOUS
<1>2. Sound["sshRule"] = "none"
  BY FacetValues
<1>3. /\ r \in Host
      /\ r.sshRule = "none"
      /\ \A g \in Facet \ {"sshRule"} : r[g] = h[g]
  BY <1>1, RuleEffect
<1>4. \A f \in Facet \ Special : r[f] = h[f] \/ r[f] = Sound[f]
  BY <1>2, <1>3
<1>5. r.platform = h.platform /\ r.gh = h.gh /\ r.openssh = h.openssh /\ r.units = h.units /\ r.accounts = h.accounts /\ r.userData = h.userData /\ r.packages = h.packages
  BY <1>3, WatchedFacets
<1> QED
  BY <1>1, <1>3, <1>4, <1>5 DEF Keeps, Settled

LEMMA SettingsKeeps ==
    ASSUME NEW h \in Host, NEW c \in {"login", "forward"}, NEW a \in Repaired(c, h)
    PROVE  Keeps(c, h, a[1])
<1>1. PICK r : r = a[1]
  OBVIOUS
<1>2. Sound["login"] = "hard" /\ Sound["forward"] = "hard"
  BY FacetValues
<1>3. /\ r \in Host
      /\ r.forward = "hard"
      /\ r.login = IF h.login = "soft" THEN "hard" ELSE h.login
      /\ \A g \in Facet \ {"login", "forward", "units"} : r[g] = h[g]
  BY <1>1, SettingsEffect
<1>4. \A f \in Facet \ Special : r[f] = h[f] \/ r[f] = Sound[f]
  BY <1>2, <1>3 DEF Special
<1>5. r.platform = h.platform /\ r.gh = h.gh /\ r.openssh = h.openssh /\ r.accounts = h.accounts /\ r.userData = h.userData /\ r.packages = h.packages
  BY <1>3, WatchedFacets
<1>6. Script(c) = "sshd settings"
  <2>1. Script("login") = "sshd settings" /\ Script("forward") = "sshd settings"
    BY DEF Script, ReadOnly
  <2> QED
    BY <2>1
<1> QED
  BY <1>1, <1>3, <1>4, <1>5, <1>6 DEF Keeps, Settled

LEMMA UnitsKeeps ==
    ASSUME NEW h \in Host, NEW a \in Repaired("units", h)
    PROVE  Keeps("units", h, a[1])
<1>1. PICK r : r = a[1]
  OBVIOUS
<1>3. /\ r \in Host
      /\ r.units = "healthy"
      /\ \A g \in Facet \ {"units"} : r[g] = h[g]
  BY <1>1, UnitsEffect
<1>4. \A f \in Facet \ Special : r[f] = h[f] \/ r[f] = Sound[f]
  BY <1>3 DEF Special
<1>5. r.platform = h.platform /\ r.gh = h.gh /\ r.openssh = h.openssh /\ r.accounts = h.accounts /\ r.userData = h.userData /\ r.packages = h.packages
  BY <1>3, WatchedFacets
<1> QED
  BY <1>1, <1>3, <1>4, <1>5 DEF Keeps, Settled

LEMMA TokenKeeps ==
    ASSUME NEW h \in Host, NEW a \in Repaired("gh token", h)
    PROVE  Keeps("gh token", h, a[1])
<1>1. PICK r : r = a[1]
  OBVIOUS
<1>2. Sound["gh"] = "stored"
  BY FacetValues
<1>3. /\ r \in Host
      /\ opt.pat = "live" => r.gh = "stored"
      /\ opt.pat # "live" => r.gh = h.gh
      /\ \A g \in Facet \ {"gh"} : r[g] = h[g]
  BY <1>1, TokenEffect
<1>4. \A f \in Facet \ Special : r[f] = h[f] \/ r[f] = Sound[f]
  BY <1>2, <1>3
<1>5. r.platform = h.platform /\ r.openssh = h.openssh /\ r.units = h.units /\ r.accounts = h.accounts /\ r.userData = h.userData /\ r.packages = h.packages
  BY <1>3, WatchedFacets
<1> QED
  BY <1>1, <1>3, <1>4, <1>5 DEF Keeps, Settled

LEMMA ToolKeeps ==
    ASSUME NEW h \in Host, NEW a \in Repaired("tools", h)
    PROVE  Keeps("tools", h, a[1])
<1>1. PICK r : r = a[1]
  OBVIOUS
<1>2. Sound["tools"] = "good" /\ Sound["mesh"] = "current"
  BY FacetValues
<1>3. /\ r \in Host
      /\ r.mesh = "current"
      /\ r.tools = h.tools \/ r.tools = "good"
      /\ r.packages = h.packages \/ r.packages = "current" \/ h.packages = "unseen"
      /\ \A g \in Facet \ {"tools", "packages", "mesh"} : r[g] = h[g]
  <2>1. /\ a[1] \in Host /\ a[1].mesh = "current"
        /\ a[1].tools = h.tools \/ a[1].tools = "good"
        /\ a[1].packages = h.packages \/ a[1].packages = "current" \/ h.packages = "unseen"
    BY ToolEffect
  <2>2. \A g \in Facet \ {"tools", "packages", "mesh"} : a[1][g] = h[g]
    BY ToolEffect
  <2> QED
    BY <1>1, <2>1, <2>2
<1>4. \A f \in Facet \ Special : r[f] = h[f] \/ r[f] = Sound[f]
  BY <1>2, <1>3 DEF Special
<1>5. r.platform = h.platform /\ r.gh = h.gh /\ r.openssh = h.openssh /\ r.units = h.units /\ r.accounts = h.accounts /\ r.userData = h.userData
  BY <1>3, WatchedFacets
<1> QED
  BY <1>1, <1>3, <1>4, <1>5 DEF Keeps, Settled

LEMMA LockdownKeeps ==
    ASSUME NEW h \in Host, NEW c \in {"ufw ssh egress", "egress restricted"}, NEW a \in Repaired(c, h)
    PROVE  Keeps(c, h, a[1])
<1>1. PICK r : r = a[1]
  OBVIOUS
<1>2. Sound["outgoing"] = "deny" /\ Sound["sshOut"] = "allowed"
  BY FacetValues
<1>3. /\ r \in Host
      /\ r.outgoing = "deny"
      /\ r.sshOut = "allowed"
      /\ \A g \in Facet \ {"outgoing", "sshOut"} : r[g] = h[g]
  BY <1>1, LockdownEffect
<1>4. \A f \in Facet \ Special : r[f] = h[f] \/ r[f] = Sound[f]
  BY <1>2, <1>3
<1>5. r.platform = h.platform /\ r.gh = h.gh /\ r.openssh = h.openssh /\ r.units = h.units /\ r.accounts = h.accounts /\ r.userData = h.userData /\ r.packages = h.packages
  BY <1>3, WatchedFacets
<1> QED
  BY <1>1, <1>3, <1>4, <1>5 DEF Keeps, Settled

LEMMA OpenSSHKeeps ==
    ASSUME NEW h \in Host, NEW a \in Repaired("openssh", h)
    PROVE  Keeps("openssh", h, a[1])
<1>1. PICK r : r = a[1]
  OBVIOUS
<1>2. Sound["openssh"] = "masked"
  BY FacetValues
<1>3. /\ r \in Host
      /\ (r.openssh = "masked" /\ r.units = "healthy") \/ r = h
      /\ \A g \in Facet \ {"openssh", "units"} : r[g] = h[g]
  BY <1>1, OpenSSHEffect
<1>4. \A f \in Facet \ Special : r[f] = h[f] \/ r[f] = Sound[f]
  BY <1>2, <1>3 DEF Special
<1>5. r.platform = h.platform /\ r.gh = h.gh /\ r.accounts = h.accounts /\ r.userData = h.userData /\ r.packages = h.packages
  BY <1>3, WatchedFacets
<1> QED
  BY <1>1, <1>3, <1>4, <1>5 DEF Keeps, Settled

LEMMA GateKeeps ==
    ASSUME NEW h \in Host, NEW a \in Repaired("reboot survivability", h)
    PROVE  Keeps("reboot survivability", h, a[1])
<1>1. PICK r : r = a[1]
  OBVIOUS
<1>2. Sound["gate"] = "installed"
  BY FacetValues
<1>3. /\ r \in Host
      /\ r.gate = "installed"
      /\ \A g \in Facet \ {"gate"} : r[g] = h[g]
  BY <1>1, GateEffect
<1>4. \A f \in Facet \ Special : r[f] = h[f] \/ r[f] = Sound[f]
  BY <1>2, <1>3
<1>5. r.platform = h.platform /\ r.gh = h.gh /\ r.openssh = h.openssh /\ r.units = h.units /\ r.accounts = h.accounts /\ r.userData = h.userData /\ r.packages = h.packages
  BY <1>3, WatchedFacets
<1> QED
  BY <1>1, <1>3, <1>4, <1>5 DEF Keeps, Settled

LEMMA AccountKeeps ==
    ASSUME NEW h \in Host, NEW a \in Repaired("accounts", h)
    PROVE  Keeps("accounts", h, a[1])
<1>1. PICK r : r = a[1]
  OBVIOUS
<1>3. /\ r \in Host
      /\ r.accounts = h.accounts \ {"image"}
      /\ \A g \in Facet \ {"accounts"} : r[g] = h[g]
  BY <1>1, AccountEffect
<1>4. \A f \in Facet \ Special : r[f] = h[f] \/ r[f] = Sound[f]
  BY <1>3 DEF Special
<1>5. r.platform = h.platform /\ r.gh = h.gh /\ r.openssh = h.openssh /\ r.units = h.units /\ r.userData = h.userData /\ r.packages = h.packages
  BY <1>3, WatchedFacets
<1> QED
  BY <1>1, <1>3, <1>4, <1>5 DEF Keeps, Settled

LEMMA ConnectorKeeps ==
    ASSUME NEW h \in Host, NEW a \in Repaired("connector", h)
    PROVE  Keeps("connector", h, a[1])
<1>1. PICK r : r = a[1]
  OBVIOUS
<1>2. Sound["connector"] = "current" /\ Sound["pin"] = "set"
  BY FacetValues
<1>3. /\ r \in Host
      /\ r.pin = "set"
      /\ r.connector = "current" \/ r.connector = h.connector
      /\ \A g \in Facet \ {"connector", "pin"} : r[g] = h[g]
  BY <1>1, ConnectorEffect
<1>4. \A f \in Facet \ Special : r[f] = h[f] \/ r[f] = Sound[f]
  BY <1>2, <1>3
<1>5. r.platform = h.platform /\ r.gh = h.gh /\ r.openssh = h.openssh /\ r.units = h.units /\ r.accounts = h.accounts /\ r.userData = h.userData /\ r.packages = h.packages
  BY <1>3, WatchedFacets
<1> QED
  BY <1>1, <1>3, <1>4, <1>5 DEF Keeps, Settled

LEMMA PinKeeps ==
    ASSUME NEW h \in Host, NEW a \in Repaired("pin", h)
    PROVE  Keeps("pin", h, a[1])
<1>1. PICK r : r = a[1]
  OBVIOUS
<1>2. Sound["pin"] = "set"
  BY FacetValues
<1>3. /\ r \in Host
      /\ r.pin = "set"
      /\ \A g \in Facet \ {"pin"} : r[g] = h[g]
  BY <1>1, PinEffect
<1>4. \A f \in Facet \ Special : r[f] = h[f] \/ r[f] = Sound[f]
  BY <1>2, <1>3
<1>5. r.platform = h.platform /\ r.gh = h.gh /\ r.openssh = h.openssh /\ r.units = h.units /\ r.accounts = h.accounts /\ r.userData = h.userData /\ r.packages = h.packages
  BY <1>3, WatchedFacets
<1> QED
  BY <1>1, <1>3, <1>4, <1>5 DEF Keeps, Settled

(* No repair undoes what another one settled, but for the units that a      *)
(* restart of sshd may fail.                                                *)
LEMMA RepairKeeps ==
    ASSUME NEW h \in Host, NEW c \in Scripted, NEW a \in Repaired(c, h)
    PROVE  Keeps(c, h, a[1])
<1>1. /\ c \in Simple => Keeps(c, h, a[1])
      /\ c \in {"sudo", "hash"} => Keeps(c, h, a[1])
      /\ c \in {"login", "forward"} => Keeps(c, h, a[1])
      /\ c \in {"ufw ssh egress", "egress restricted"} => Keeps(c, h, a[1])
  BY SimpleKeeps, PasswordKeeps, SettingsKeeps, LockdownKeeps
<1>2. /\ c = "ufw active" => Keeps(c, h, a[1])
      /\ c = "ufw deny" => Keeps(c, h, a[1])
      /\ c = "ufw ssh" => Keeps(c, h, a[1])
      /\ c = "units" => Keeps(c, h, a[1])
  BY ActiveKeeps, DenyKeeps, RuleKeeps, UnitsKeeps
<1>3. /\ c = "gh token" => Keeps(c, h, a[1])
      /\ c = "tools" => Keeps(c, h, a[1])
      /\ c = "openssh" => Keeps(c, h, a[1])
      /\ c = "reboot survivability" => Keeps(c, h, a[1])
  BY TokenKeeps, ToolKeeps, OpenSSHKeeps, GateKeeps
<1>4. /\ c = "accounts" => Keeps(c, h, a[1])
      /\ c = "connector" => Keeps(c, h, a[1])
      /\ c = "pin" => Keeps(c, h, a[1])
  BY AccountKeeps, ConnectorKeeps, PinKeeps
<1> QED
  BY <1>1, <1>2, <1>3, <1>4 DEF Scripted

-----------------------------------------------------------------------------
(* The checks of a run *)

(* Every check of an order is one that is listed. *)
LEMMA OpeningListed == \A i \in 1 .. 11 : Opening[i] \in Listed
<1> SUFFICES ASSUME NEW i \in 1 .. 11 PROVE Opening[i] \in Listed
  OBVIOUS
<1>0. {"platform", "sudo", "hash", "cloud-init", "admin user", "ufw active", "ufw deny", "ufw ssh", "login", "forward", "units"} \subseteq Listed
  BY DEF Listed, Plain, Scripted, ReadOnly, Simple
<1>1. i = 1 => Opening[i] \in Listed
  <2>1. Opening[1] = "platform"
    BY DEF Opening
  <2> QED
    BY <1>0, <2>1
<1>2. i = 2 => Opening[i] \in Listed
  <2>1. Opening[2] = "sudo"
    BY DEF Opening
  <2> QED
    BY <1>0, <2>1
<1>3. i = 3 => Opening[i] \in Listed
  <2>1. Opening[3] = "hash"
    BY DEF Opening
  <2> QED
    BY <1>0, <2>1
<1>4. i = 4 => Opening[i] \in Listed
  <2>1. Opening[4] = "cloud-init"
    BY DEF Opening
  <2> QED
    BY <1>0, <2>1
<1>5. i = 5 => Opening[i] \in Listed
  <2>1. Opening[5] = "admin user"
    BY DEF Opening
  <2> QED
    BY <1>0, <2>1
<1>6. i = 6 => Opening[i] \in Listed
  <2>1. Opening[6] = "ufw active"
    BY DEF Opening
  <2> QED
    BY <1>0, <2>1
<1>7. i = 7 => Opening[i] \in Listed
  <2>1. Opening[7] = "ufw deny"
    BY DEF Opening
  <2> QED
    BY <1>0, <2>1
<1>8. i = 8 => Opening[i] \in Listed
  <2>1. Opening[8] = "ufw ssh"
    BY DEF Opening
  <2> QED
    BY <1>0, <2>1
<1>9. i = 9 => Opening[i] \in Listed
  <2>1. Opening[9] = "login"
    BY DEF Opening
  <2> QED
    BY <1>0, <2>1
<1>10. i = 10 => Opening[i] \in Listed
  <2>1. Opening[10] = "forward"
    BY DEF Opening
  <2> QED
    BY <1>0, <2>1
<1>11. i = 11 => Opening[i] \in Listed
  <2>1. Opening[11] = "units"
    BY DEF Opening
  <2> QED
    BY <1>0, <2>1
<1> QED
  BY <1>1, <1>2, <1>3, <1>4, <1>5, <1>6, <1>7, <1>8, <1>9, <1>10, <1>11

LEMMA SoftwareListed == \A i \in 1 .. 7 : Software[i] \in Listed
<1> SUFFICES ASSUME NEW i \in 1 .. 7 PROVE Software[i] \in Listed
  OBVIOUS
<1>0. {"apparmor", "upgrades", "journald", "gh token", "tools", "dns", "egress"} \subseteq Listed
  BY DEF Listed, Plain, Scripted, ReadOnly, Simple
<1>1. i = 1 => Software[i] \in Listed
  <2>1. Software[1] = "apparmor"
    BY DEF Software
  <2> QED
    BY <1>0, <2>1
<1>2. i = 2 => Software[i] \in Listed
  <2>1. Software[2] = "upgrades"
    BY DEF Software
  <2> QED
    BY <1>0, <2>1
<1>3. i = 3 => Software[i] \in Listed
  <2>1. Software[3] = "journald"
    BY DEF Software
  <2> QED
    BY <1>0, <2>1
<1>4. i = 4 => Software[i] \in Listed
  <2>1. Software[4] = "gh token"
    BY DEF Software
  <2> QED
    BY <1>0, <2>1
<1>5. i = 5 => Software[i] \in Listed
  <2>1. Software[5] = "tools"
    BY DEF Software
  <2> QED
    BY <1>0, <2>1
<1>6. i = 6 => Software[i] \in Listed
  <2>1. Software[6] = "dns"
    BY DEF Software
  <2> QED
    BY <1>0, <2>1
<1>7. i = 7 => Software[i] \in Listed
  <2>1. Software[7] = "egress"
    BY DEF Software
  <2> QED
    BY <1>0, <2>1
<1> QED
  BY <1>1, <1>2, <1>3, <1>4, <1>5, <1>6, <1>7

LEMMA ClosingListed == \A i \in 1 .. 11 : Closing[i] \in Listed
<1> SUFFICES ASSUME NEW i \in 1 .. 11 PROVE Closing[i] \in Listed
  OBVIOUS
<1>0. {"openssh", "reboot pending", "reboot survivability", "apt config", "accounts", "user-data", "operator", "serve", "sysctl", "git identity", "github ssh"} \subseteq Listed
  BY DEF Listed, Plain, Scripted, ReadOnly, Simple
<1>1. i = 1 => Closing[i] \in Listed
  <2>1. Closing[1] = "openssh"
    BY DEF Closing
  <2> QED
    BY <1>0, <2>1
<1>2. i = 2 => Closing[i] \in Listed
  <2>1. Closing[2] = "reboot pending"
    BY DEF Closing
  <2> QED
    BY <1>0, <2>1
<1>3. i = 3 => Closing[i] \in Listed
  <2>1. Closing[3] = "reboot survivability"
    BY DEF Closing
  <2> QED
    BY <1>0, <2>1
<1>4. i = 4 => Closing[i] \in Listed
  <2>1. Closing[4] = "apt config"
    BY DEF Closing
  <2> QED
    BY <1>0, <2>1
<1>5. i = 5 => Closing[i] \in Listed
  <2>1. Closing[5] = "accounts"
    BY DEF Closing
  <2> QED
    BY <1>0, <2>1
<1>6. i = 6 => Closing[i] \in Listed
  <2>1. Closing[6] = "user-data"
    BY DEF Closing
  <2> QED
    BY <1>0, <2>1
<1>7. i = 7 => Closing[i] \in Listed
  <2>1. Closing[7] = "operator"
    BY DEF Closing
  <2> QED
    BY <1>0, <2>1
<1>8. i = 8 => Closing[i] \in Listed
  <2>1. Closing[8] = "serve"
    BY DEF Closing
  <2> QED
    BY <1>0, <2>1
<1>9. i = 9 => Closing[i] \in Listed
  <2>1. Closing[9] = "sysctl"
    BY DEF Closing
  <2> QED
    BY <1>0, <2>1
<1>10. i = 10 => Closing[i] \in Listed
  <2>1. Closing[10] = "git identity"
    BY DEF Closing
  <2> QED
    BY <1>0, <2>1
<1>11. i = 11 => Closing[i] \in Listed
  <2>1. Closing[11] = "github ssh"
    BY DEF Closing
  <2> QED
    BY <1>0, <2>1
<1> QED
  BY <1>1, <1>2, <1>3, <1>4, <1>5, <1>6, <1>7, <1>8, <1>9, <1>10, <1>11

LEMMA NamesListed == Names \subseteq Listed
<1>1. {"ufw ssh egress", "egress restricted", "connector", "pin", "ingress"} \subseteq Listed
  BY DEF Listed, Scripted
<1> QED
  BY <1>1, OpeningListed, SoftwareListed, ClosingListed DEF Names

(* The checks of this run: their names, places and order. *)
LEMMA Places ==
    ASSUME cfg \in Configs
    PROVE  /\ Checks \in Seq(Names) /\ Len(Checks) \in Nat /\ Len(Checks) > 30
           /\ DOMAIN Checks = 1 .. Len(Checks)
           /\ Check \subseteq Listed /\ \A i \in DOMAIN Checks : Checks[i] \in Check /\ Checks[i] \in Listed
           /\ Checks[1] = "platform" /\ Checks[6] = "ufw active" /\ Checks[15] = "gh token"
           /\ \A i, j \in DOMAIN Checks : i < j => Rank(Checks[i]) < Rank(Checks[j])
<1>1. PICK n : n = Length(cfg)
  OBVIOUS
<1>2. n \in Nat /\ n > 30
  BY <1>1 DEF Length
<1>3. /\ Checks \in Seq(Names) /\ Len(Checks) = n
      /\ \A i \in 1 .. n : Rank(Checks[i]) = IF i <= 18 \/ cfg.lockdown THEN i ELSE i + 2
      /\ Checks[1] = "platform" /\ Checks[6] = "ufw active" /\ Checks[15] = "gh token"
  BY <1>1, OrderRank DEF Checks
<1>4. DOMAIN Checks = 1 .. Len(Checks) /\ \A i \in DOMAIN Checks : Checks[i] \in Names
  <2>1. Checks \in Seq(Names)
    BY <1>3
  <2> QED
    BY <2>1
<1>5. \A i \in DOMAIN Checks : Checks[i] \in Listed
  BY <1>4, NamesListed
<1>6. ASSUME NEW i \in DOMAIN Checks, NEW j \in DOMAIN Checks, i < j
      PROVE  Rank(Checks[i]) < Rank(Checks[j])
  <2>1. i \in 1 .. n /\ j \in 1 .. n
    BY <1>3, <1>4
  <2>2. /\ Rank(Checks[i]) = IF i <= 18 \/ cfg.lockdown THEN i ELSE i + 2
        /\ Rank(Checks[j]) = IF j <= 18 \/ cfg.lockdown THEN j ELSE j + 2
    BY <1>3, <2>1
  <2> QED
    BY <1>2, <1>6, <2>1, <2>2
<1> QED
  BY <1>2, <1>3, <1>4, <1>5, <1>6 DEF Check

-----------------------------------------------------------------------------
(* Types *)

(* The sound host, and every host that drifts from it, is a host. *)
LEMMA SoundTyped ==
    ASSUME NEW f \in Facet
    PROVE  Sound[f] \in Facets[f]
<1>1. DOMAIN Shared = {"sudo", "hash", "ufw", "incoming", "sshRule", "sshOut", "outgoing", "login", "forward", "units",
                  "openssh", "gh", "tools", "packages", "mesh", "kernel", "gate", "workload", "accounts", "userData", "serve", "connector", "pin"}
  BY DEF Shared
<1>2. CASE f \in Plain
  BY <1>2, PlainFacet
<1>3. CASE f \in DOMAIN Shared
  <2>1. Sound["sudo"] \in Facets["sudo"]
    BY FacetValues
  <2>2. Sound["hash"] \in Facets["hash"]
    BY FacetValues
  <2>3. Sound["ufw"] \in Facets["ufw"]
    BY FacetValues
  <2>4. Sound["incoming"] \in Facets["incoming"]
    BY FacetValues
  <2>5. Sound["sshRule"] \in Facets["sshRule"]
    BY FacetValues
  <2>6. Sound["sshOut"] \in Facets["sshOut"]
    BY FacetValues
  <2>7. Sound["outgoing"] \in Facets["outgoing"]
    BY FacetValues
  <2>8. Sound["login"] \in Facets["login"]
    BY FacetValues
  <2>9. Sound["forward"] \in Facets["forward"]
    BY FacetValues
  <2>10. Sound["units"] \in Facets["units"]
    BY FacetValues
  <2>11. Sound["openssh"] \in Facets["openssh"]
    BY FacetValues
  <2>12. Sound["gh"] \in Facets["gh"]
    BY FacetValues
  <2>13. Sound["tools"] \in Facets["tools"]
    BY FacetValues
  <2>14. Sound["packages"] \in Facets["packages"]
    BY FacetValues
  <2>15. Sound["mesh"] \in Facets["mesh"]
    BY FacetValues
  <2>16. Sound["kernel"] \in Facets["kernel"]
    BY FacetValues
  <2>17. Sound["gate"] \in Facets["gate"]
    BY FacetValues
  <2>18. Sound["workload"] \in Facets["workload"]
    BY FacetValues
  <2>19. Sound["accounts"] \in Facets["accounts"]
    BY FacetValues
  <2>20. Sound["userData"] \in Facets["userData"]
    BY FacetValues
  <2>21. Sound["serve"] \in Facets["serve"]
    BY FacetValues
  <2>22. Sound["connector"] \in Facets["connector"]
    BY FacetValues
  <2>23. Sound["pin"] \in Facets["pin"]
    BY FacetValues
  <2> QED
    BY <1>1, <1>3, <2>1, <2>2, <2>3, <2>4, <2>5, <2>6, <2>7, <2>8, <2>9, <2>10, <2>11, <2>12, <2>13, <2>14, <2>15, <2>16, <2>17, <2>18, <2>19, <2>20, <2>21, <2>22, <2>23
<1> QED
  BY <1>2, <1>3 DEF Facet

LEMMA DriftedHost ==
    ASSUME NEW n, NEW drifts \in [1 .. n -> Drift]
    PROVE  Drifted(drifts) \in Host
<1>1. PICK h : h = Drifted(drifts)
  OBVIOUS
<1>2. ASSUME NEW f \in Facet
      PROVE  h[f] \in Facets[f]
  <2>1. CASE \E i \in 1 .. n : drifts[i][1] = f
    <3>1. PICK i \in 1 .. n : drifts[i][1] = f /\ h[f] = drifts[i][2]
      <4>1. PICK i : i = CHOOSE j \in DOMAIN drifts : drifts[j][1] = f
        OBVIOUS
      <4>2. DOMAIN drifts = 1 .. n
        OBVIOUS
      <4>3. i \in 1 .. n /\ drifts[i][1] = f
        BY <2>1, <4>1, <4>2
      <4>4. h[f] = drifts[i][2]
        BY <1>1, <2>1, <4>1, <4>2 DEF Drifted
      <4> QED
        BY <4>3, <4>4
    <3>2. drifts[i] \in Drift
      OBVIOUS
    <3>3. PICK g \in Facet : drifts[i] \in {g} \X Facets[g]
      BY <3>2 DEF Drift
    <3>4. drifts[i][1] = g /\ drifts[i][2] \in Facets[g]
      BY <3>3
    <3> QED
      BY <3>1, <3>4
  <2>2. CASE ~ \E i \in 1 .. n : drifts[i][1] = f
    <3>1. h[f] = Sound[f]
      <4>1. DOMAIN drifts = 1 .. n
        OBVIOUS
      <4> QED
        BY <1>1, <2>2, <4>1 DEF Drifted
    <3> QED
      BY <3>1, SoundTyped
  <2> QED
    BY <2>1, <2>2
<1>3. h = [f \in Facet |-> h[f]]
  BY <1>1 DEF Drifted
<1>4. h \in [Facet -> Value]
  BY <1>2, <1>3, FacetValue
<1> QED
  BY <1>1, <1>2, <1>4 DEF Host

(* Every grading yields one of the four grades. *)
LEMMA GradesTyped ==
    ASSUME NEW c, NEW findings
    PROVE  /\ GradeOf(c, findings) \in Grades /\ Outcome(c) \in Grades
           /\ AfterGrade(c, findings) \in Grades
<1>1. \A s : GhGrade(s) \in Grades /\ Grade(s) \in Grades
  BY DEF GhGrade, Grade, Grades
<1>2. \A d, s : GradeOf(d, s) \in Grades
  BY <1>1 DEF GradeOf
<1>3. "fail" \in Grades /\ "pass" \in Grades
  BY DEF Grades
<1> QED
  BY <1>1, <1>2, <1>3 DEF Outcome, AfterGrade

LEMMA InitTyped == Init => WellTyped
<1> SUFFICES ASSUME Init PROVE WellTyped
  OBVIOUS
<1> USE DEF Init
<1>1. host \in Host /\ base \in Host /\ first \in Host
  BY DriftedHost
<1>2. /\ cfg \in Configs /\ opt \in Options
  OBVIOUS
<1>3. pos \in 1 .. Len(Checks) + 1 /\ routeAt \in 0 .. Len(Checks) + 1
  <2>1. pos = 1 /\ routeAt = 0
    OBVIOUS
  <2>2. Len(Checks) \in Nat
    BY <1>2, Places
  <2> HIDE DEF Init
  <2> QED
    BY <2>1, <2>2
<1>4. verdict \in Seq(Grades) /\ Len(verdict) = pos - 1
  OBVIOUS
<1>5. faults \in 0 .. Faults
  BY BoundsAssumption
<1> QED
  BY <1>1, <1>2, <1>3, <1>4, <1>5 DEF WellTyped, Working

(* A result extends the verdict by one and moves to the next check. *)
LEMMA ReportTyped ==
    ASSUME WellTyped, pos \in DOMAIN Checks, NEW v \in Grades, Report(v), cfg' = cfg
    PROVE  /\ verdict' \in Seq(Grades) /\ Len(verdict') = pos' - 1
           /\ pos' \in 1 .. Len(Checks) + 1 /\ at' \in {"check", "done"}
           /\ pos' = pos + 1
<1>1. verdict \in Seq(Grades) /\ Len(verdict) = pos - 1 /\ cfg \in Configs
  BY DEF WellTyped
<1>2. Len(Checks) \in Nat /\ DOMAIN Checks = 1 .. Len(Checks)
  BY <1>1, Places
<1>3. verdict' = Append(verdict, v) /\ pos' = pos + 1 /\ at' \in {"check", "done"}
  BY DEF Report
<1>4. verdict' \in Seq(Grades) /\ Len(verdict') = Len(verdict) + 1
  BY <1>1, <1>3
<1> QED
  BY <1>1, <1>2, <1>3, <1>4

(* The type part of the invariant is inductive. *)
LEMMA TypedStep == WellTyped /\ [Next]_vars => WellTyped'
<1> SUFFICES ASSUME WellTyped, [Next]_vars PROVE WellTyped'
  OBVIOUS
<1>0. /\ cfg \in Configs /\ opt \in Options
      /\ host \in Host /\ base \in Host /\ first \in Host
      /\ at \in {"identify", "batch", "check", "guard", "repair", "recheck", "done"}
      /\ pos \in 1 .. Len(Checks) + 1
      /\ at \in Working => pos \in DOMAIN Checks /\ Script(Current) # "none"
      /\ errors \subseteq Check
      /\ \A script \in ran : \E c \in Check : Script(c) = script
      /\ verdict \in Seq(Grades) /\ Len(verdict) = pos - 1
      /\ trusted \in BOOLEAN /\ (trusted => opt.fix /\ errors = {})
      /\ blocked \in BOOLEAN /\ retried \in BOOLEAN
      /\ routeAt \in 0 .. Len(Checks) + 1 /\ faults \in 0 .. Faults
  BY DEF WellTyped
<1>c. /\ Len(Checks) \in Nat /\ Len(Checks) > 30 /\ DOMAIN Checks = 1 .. Len(Checks)
      /\ Check \subseteq Listed
      /\ \A i \in DOMAIN Checks : Checks[i] \in Check /\ Checks[i] \in Listed
  BY <1>0, Places
<1>f. Faults \in Nat
  BY BoundsAssumption
<1>k. cfg' = cfg => Checks' = Checks /\ Check' = Check
  BY DEF Checks, Check
<1>1. CASE Identify
  <2>1. Checks' = Checks /\ Check' = Check
    BY <1>1, <1>k DEF Identify
  <2> QED
    BY <1>0, <1>1, <2>1 DEF Identify, WellTyped, Working
<1>2. CASE Batch
  <2>1. cfg' = cfg /\ Checks' = Checks /\ Check' = Check
    BY <1>2, <1>k DEF Batch, settings
  <2>2. errors' \subseteq Check /\ faults' \in 0 .. Faults
    BY <1>0, <1>2, <1>f DEF Batch, Fault, NoFault
  <2>3. trusted' \in BOOLEAN /\ (trusted' => opt'.fix /\ errors' = {})
    BY <1>2 DEF Batch
  <2>4. verdict' \in Seq(Grades) /\ Len(verdict') = pos' - 1 /\ pos' \in 1 .. Len(Checks) + 1
    BY <1>2, <1>c DEF Batch
  <2>5. /\ opt' = opt /\ host' = host /\ first' = first /\ blocked' = blocked /\ retried' = retried
        /\ routeAt' = routeAt /\ at' = "check" /\ base' = host /\ ran' = {}
    BY <1>2 DEF Batch, settings
  <2> QED
    BY <1>0, <2>1, <2>2, <2>3, <2>4, <2>5 DEF WellTyped, Working
<1>3. CASE Judge
  <2>1. cfg' = cfg /\ Checks' = Checks /\ Check' = Check
    BY <1>3, <1>k DEF Judge, settings
  <2>2. PICK next \in pos .. Len(Checks) + 1 :
          /\ next \in DOMAIN Checks => GetsRepair(next)
          /\ pos' = next
          /\ verdict' = [k \in 1 .. next - 1 |->
                           IF k < pos THEN verdict[k]
                           ELSE IF WantsRepair(k) THEN "fail" ELSE Outcome(Checks[k])]
          /\ at' = IF next > Len(Checks) THEN "done"
                   ELSE IF Checks[next] = "openssh" THEN "guard" ELSE "repair"
    BY <1>3 DEF Judge
  <2>3. /\ opt' = opt /\ host' = host /\ base' = base /\ first' = first /\ blocked' = blocked
        /\ errors' = errors /\ trusted' = trusted /\ ran' = ran
        /\ retried' = retried /\ routeAt' = routeAt /\ faults' = faults
    BY <1>3 DEF Judge, settings
  <2>4. next \in 1 .. Len(Checks) + 1 /\ next - 1 \in Nat
    BY <1>0, <1>c
  <2>5. verdict' \in Seq(Grades) /\ Len(verdict') = pos' - 1
    <3>1. ASSUME NEW k \in 1 .. next - 1
          PROVE  (IF k < pos THEN verdict[k]
                  ELSE IF WantsRepair(k) THEN "fail" ELSE Outcome(Checks[k])) \in Grades
      <4>1. k < pos => verdict[k] \in Grades
        BY <1>0
      <4>2. "fail" \in Grades /\ Outcome(Checks[k]) \in Grades
        BY GradesTyped DEF Grades
      <4> QED
        BY <4>1, <4>2
    <3>2. PICK n \in Nat : n = next - 1
      BY <2>4
    <3>3. verdict' = [k \in 1 .. n |-> verdict'[k]] /\ \A k \in 1 .. n : verdict'[k] \in Grades
      BY <2>2, <3>1, <3>2
    <3>4. verdict' \in Seq(Grades) /\ Len(verdict') = n
      BY <3>3, SequenceOf
    <3> QED
      BY <2>2, <3>2, <3>4
  <2>6. at' \in Working => pos' \in DOMAIN Checks /\ Script(Checks[pos']) # "none"
    <3>1. at' \in Working => next \in DOMAIN Checks
      BY <1>c, <2>2, <2>4 DEF Working
    <3> QED
      BY <2>2, <3>1 DEF GetsRepair, WantsRepair
  <2>7. at' \in {"done", "guard", "repair"}
    BY <2>2
  <2> QED
    BY <1>0, <2>1, <2>2, <2>3, <2>4, <2>5, <2>6, <2>7 DEF WellTyped, Current
<1>4. CASE Guard
  <2>1. cfg' = cfg /\ Checks' = Checks /\ Check' = Check
    BY <1>4, <1>k DEF Guard, settings
  <2>2. /\ opt' = opt /\ host' = host /\ base' = base /\ first' = first /\ blocked' = blocked
        /\ errors' = errors /\ trusted' = trusted /\ ran' = ran
        /\ retried' = retried /\ routeAt' = routeAt /\ faults' \in 0 .. Faults
    BY <1>0, <1>4, <1>f DEF Guard, settings, Fault, NoFault
  <2>3. pos \in DOMAIN Checks /\ Script(Current) # "none"
    BY <1>0, <1>4 DEF Guard, Working
  <2>4. CASE at' = "repair" /\ UNCHANGED <<verdict, pos>>
    BY <1>0, <2>1, <2>2, <2>3, <2>4 DEF WellTyped, Current
  <2>5. CASE Report("fail")
    <3>1. "fail" \in Grades
      BY DEF Grades
    <3>2. /\ verdict' \in Seq(Grades) /\ Len(verdict') = pos' - 1
          /\ pos' \in 1 .. Len(Checks) + 1 /\ at' \in {"check", "done"}
      BY <2>1, <2>3, <2>5, <3>1, ReportTyped
    <3> QED
      BY <1>0, <2>1, <2>2, <3>2 DEF WellTyped, Working
  <2> QED
    BY <1>4, <2>4, <2>5 DEF Guard
<1>5. CASE Repair
  <2>1. cfg' = cfg /\ Checks' = Checks /\ Check' = Check
    BY <1>5, <1>k DEF Repair, settings
  <2>2. /\ opt' = opt /\ base' = base /\ first' = first /\ blocked' = blocked
        /\ errors' = errors /\ trusted' = trusted /\ ran' = ran \union {Script(Current)}
        /\ retried' = retried /\ routeAt' = routeAt /\ faults' \in 0 .. Faults
    BY <1>0, <1>5, <1>f DEF Repair, settings, Fault, NoFault
  <2>3. pos \in DOMAIN Checks /\ Script(Current) # "none"
    BY <1>0, <1>5 DEF Repair, Working
  <2>4. Current \in Check /\ Current \in Scripted
    BY <1>c, <2>3, ScriptedNames DEF Current
  <2>5. host' \in Host
    <3>1. PICK answer \in Repaired(Current, host) : host' = answer[1] \/ host' = host
      BY <1>5 DEF Repair
    <3>2. answer[1] \in Host
      BY <1>0, <2>4, RepairKeeps DEF Keeps
    <3> QED
      BY <1>0, <3>1, <3>2
  <2>6. \A script \in ran' : \E c \in Check : Script(c) = script
    BY <1>0, <2>2, <2>4
  <2>7. CASE at' = "recheck" /\ UNCHANGED <<verdict, pos>>
    BY <1>0, <2>1, <2>2, <2>3, <2>5, <2>6, <2>7 DEF WellTyped, Current
  <2>8. CASE Report("fail")
    <3>1. "fail" \in Grades
      BY DEF Grades
    <3>2. /\ verdict' \in Seq(Grades) /\ Len(verdict') = pos' - 1
          /\ pos' \in 1 .. Len(Checks) + 1 /\ at' \in {"check", "done"}
      BY <2>1, <2>3, <2>8, <3>1, ReportTyped
    <3> QED
      BY <1>0, <2>1, <2>2, <2>5, <2>6, <3>2 DEF WellTyped, Working
  <2> QED
    BY <1>5, <2>7, <2>8 DEF Repair
<1>6. CASE Recheck
  <2>1. cfg' = cfg /\ Checks' = Checks /\ Check' = Check
    BY <1>6, <1>k DEF Recheck, settings
  <2>2. /\ opt' = opt /\ host' = host /\ base' = base /\ first' = first /\ blocked' = blocked
        /\ errors' = errors /\ trusted' = trusted /\ ran' = ran
        /\ retried' = retried /\ routeAt' = routeAt /\ faults' \in 0 .. Faults
    BY <1>0, <1>6, <1>f DEF Recheck, settings, Fault, NoFault
  <2>3. pos \in DOMAIN Checks
    BY <1>0, <1>6 DEF Recheck, Working
  <2>4. \E v \in Grades : Report(v)
    <3>1. "fail" \in Grades /\ AfterGrade(Current, Probe(Current, host)) \in Grades
      BY GradesTyped DEF Grades
    <3> QED
      BY <1>6, <3>1 DEF Recheck
  <2>5. /\ verdict' \in Seq(Grades) /\ Len(verdict') = pos' - 1
        /\ pos' \in 1 .. Len(Checks) + 1 /\ at' \in {"check", "done"}
    BY <2>1, <2>3, <2>4, ReportTyped
  <2> QED
    BY <1>0, <2>1, <2>2, <2>5 DEF WellTyped, Working
<1>7. CASE Retry
  <2>1. cfg' = cfg /\ Checks' = Checks /\ Check' = Check
    BY <1>7, <1>k DEF Retry, settings
  <2>2. PICK p \in {"right", "wrong"} : opt' = [opt EXCEPT !.password = p]
    BY <1>7 DEF Retry
  <2>3. opt' \in Options /\ opt'.fix = opt.fix
    BY <1>0, <2>2 DEF Options
  <2> QED
    BY <1>0, <1>7, <2>1, <2>3 DEF Retry, settings, WellTyped, Working
<1>8. CASE AddRoute
  <2>1. cfg' = cfg /\ Checks' = Checks /\ Check' = Check /\ Current' = Current
    BY <1>8, <1>k DEF AddRoute, settings, Current
  <2>2. routeAt' \in 0 .. Len(Checks) + 1
    BY <1>0, <1>8, <1>c DEF AddRoute, Working
  <2> QED
    BY <1>0, <1>8, <2>1, <2>2 DEF AddRoute, settings, WellTyped, Working
<1>9. CASE UNCHANGED vars
  <2>1. Checks' = Checks /\ Check' = Check /\ Current' = Current
    BY <1>9, <1>k DEF vars, Current
  <2> QED
    BY <1>0, <1>9, <2>1 DEF vars, WellTyped
<1> QED
  BY <1>1, <1>2, <1>3, <1>4, <1>5, <1>6, <1>7, <1>8, <1>9 DEF Next

LEMMA AlwaysTyped == Spec => []WellTyped
<1>1. Init => WellTyped
  BY InitTyped
<1>2. WellTyped /\ [Next]_vars => WellTyped'
  BY TypedStep
<1> QED
  BY <1>1, <1>2, PTL DEF Spec

(***************************************************************************)
(* The type invariant: every host of the run has a value of its facet in   *)
(* every facet, repairs are trusted only with --fix and a whole baseline   *)
(* (remote_batch.go:75), every script that ran belongs to a check, and     *)
(* there is one result for every check that was passed.                    *)
(***************************************************************************)
THEOREM Typed == Spec => []TypeOK
<1>1. WellTyped => TypeOK
  <2> SUFFICES ASSUME WellTyped PROVE TypeOK
    OBVIOUS
  <2>1. cfg \in Configs /\ host \in Host /\ base \in Host
    BY DEF WellTyped
  <2>2. \A f \in Facet : host[f] \in Facets[f] /\ base[f] \in Facets[f]
    BY <2>1, HostFacet
  <2>3. routeAt \in 0 .. Len(Checks) + 2
    <3>1. routeAt \in 0 .. Len(Checks) + 1
      BY DEF WellTyped
    <3>2. Len(Checks) \in Nat
      BY <2>1, Places
    <3> QED
      BY <3>1, <3>2
  <2> QED
    BY <2>2, <2>3 DEF WellTyped, TypeOK, Grades
<1> QED
  BY <1>1, AlwaysTyped, PTL

-----------------------------------------------------------------------------
(* Trust *)

(* What each probe finds. *)
LEMMA ProbePlain ==
    ASSUME NEW h, NEW c \in Plain
    PROVE  Probe(c, h) = If(h[c] = "bad", c)
<1>1. c = "platform" \/ c \in ReadOnly \/ c \in Simple
  BY DEF Plain
<1>2. CASE c = "platform"
  BY <1>2, Zenon DEF Probe, Plain, ReadOnly, Simple
<1>3. CASE c = "cloud-init"
  BY <1>3, Zenon DEF Probe, Plain, ReadOnly, Simple
<1>4. CASE c = "admin user"
  BY <1>4, Zenon DEF Probe, Plain, ReadOnly, Simple
<1>5. CASE c = "dns"
  BY <1>5, Zenon DEF Probe, Plain, ReadOnly, Simple
<1>6. CASE c = "egress"
  BY <1>6, Zenon DEF Probe, Plain, ReadOnly, Simple
<1>7. CASE c = "operator"
  BY <1>7, Zenon DEF Probe, Plain, ReadOnly, Simple
<1>8. CASE c = "sysctl"
  BY <1>8, Zenon DEF Probe, Plain, ReadOnly, Simple
<1>9. CASE c = "github ssh"
  BY <1>9, Zenon DEF Probe, Plain, ReadOnly, Simple
<1>10. CASE c = "apparmor"
  BY <1>10, Zenon DEF Probe, Plain, ReadOnly, Simple
<1>11. CASE c = "upgrades"
  BY <1>11, Zenon DEF Probe, Plain, ReadOnly, Simple
<1>12. CASE c = "journald"
  BY <1>12, Zenon DEF Probe, Plain, ReadOnly, Simple
<1>13. CASE c = "apt config"
  BY <1>13, Zenon DEF Probe, Plain, ReadOnly, Simple
<1>14. CASE c = "git identity"
  BY <1>14, Zenon DEF Probe, Plain, ReadOnly, Simple
<1> QED
  BY <1>1, <1>2, <1>3, <1>4, <1>5, <1>6, <1>7, <1>8, <1>9, <1>10, <1>11, <1>12, <1>13, <1>14 DEF ReadOnly, Simple

LEMMA ProbeValues ==
    ASSUME NEW h
    PROVE  /\ Probe("sudo", h) = If(h.sudo = "nopasswd", "nopasswd")
           /\ Probe("hash", h) = If(h.hash = "legacy", "legacy")
           /\ Probe("login", h) = SshdFindings(h, "login")
           /\ Probe("forward", h) = SshdFindings(h, "forward")
           /\ Probe("units", h) = UnitFindings(h)
           /\ Probe("gh token", h) = If(h.gh # "stored", h.gh)
           /\ Probe("tools", h) = ToolFindings(h)
           /\ Probe("egress restricted", h) = EgressFindings(h)
           /\ Probe("openssh", h) = OpenSSHFindings(h)
           /\ Probe("reboot pending", h) = If(h.kernel = "pending", "kernel")
           /\ Probe("reboot survivability", h) = RebootFindings(h)
           /\ Probe("accounts", h) = AccountFindings(h)
           /\ Probe("user-data", h) = UserDataFindings(h)
           /\ Probe("serve", h) = ServeFindings(h)
           /\ Probe("connector", h) = ConnectorFindings(h)
           /\ Probe("pin", h) = If(h.pin = "missing", "pin")
           /\ Probe("ingress", h) = IngressFindings(h)
           /\ Probe("ufw active", h) = If(h.ufw = "inactive", "inactive")
           /\ Probe("ufw deny", h) = If(h.ufw = "inactive" \/ h.incoming = "allow", "no deny")
           /\ Probe("ufw ssh", h) = If(h.ufw = "active" /\ h.sshRule = "allowed", "rule")
           /\ Probe("ufw ssh egress", h) = If(h.ufw = "inactive" \/ h.sshOut = "missing", "no rule")
<1>1. Probe("sudo", h) = If(h.sudo = "nopasswd", "nopasswd")
  BY DEF Probe, UfwFindings, Plain, ReadOnly, Simple
<1>2. Probe("hash", h) = If(h.hash = "legacy", "legacy")
  BY DEF Probe, UfwFindings, Plain, ReadOnly, Simple
<1>3. Probe("login", h) = SshdFindings(h, "login")
  BY DEF Probe, UfwFindings, Plain, ReadOnly, Simple
<1>4. Probe("forward", h) = SshdFindings(h, "forward")
  BY DEF Probe, UfwFindings, Plain, ReadOnly, Simple
<1>5. Probe("units", h) = UnitFindings(h)
  BY DEF Probe, UfwFindings, Plain, ReadOnly, Simple
<1>6. Probe("gh token", h) = If(h.gh # "stored", h.gh)
  BY DEF Probe, UfwFindings, Plain, ReadOnly, Simple
<1>7. Probe("tools", h) = ToolFindings(h)
  BY DEF Probe, UfwFindings, Plain, ReadOnly, Simple
<1>8. Probe("egress restricted", h) = EgressFindings(h)
  BY DEF Probe, UfwFindings, Plain, ReadOnly, Simple
<1>9. Probe("openssh", h) = OpenSSHFindings(h)
  BY DEF Probe, UfwFindings, Plain, ReadOnly, Simple
<1>10. Probe("reboot pending", h) = If(h.kernel = "pending", "kernel")
  BY DEF Probe, UfwFindings, Plain, ReadOnly, Simple
<1>11. Probe("reboot survivability", h) = RebootFindings(h)
  BY DEF Probe, UfwFindings, Plain, ReadOnly, Simple
<1>12. Probe("accounts", h) = AccountFindings(h)
  BY DEF Probe, UfwFindings, Plain, ReadOnly, Simple
<1>13. Probe("user-data", h) = UserDataFindings(h)
  BY DEF Probe, UfwFindings, Plain, ReadOnly, Simple
<1>14. Probe("serve", h) = ServeFindings(h)
  BY DEF Probe, UfwFindings, Plain, ReadOnly, Simple
<1>15. Probe("connector", h) = ConnectorFindings(h)
  BY DEF Probe, UfwFindings, Plain, ReadOnly, Simple
<1>16. Probe("pin", h) = If(h.pin = "missing", "pin")
  BY DEF Probe, UfwFindings, Plain, ReadOnly, Simple
<1>17. Probe("ingress", h) = IngressFindings(h)
  BY DEF Probe, UfwFindings, Plain, ReadOnly, Simple
<1>18. Probe("ufw active", h) = If(h.ufw = "inactive", "inactive")
  BY DEF Probe, UfwFindings, Plain, ReadOnly, Simple
<1>19. Probe("ufw deny", h) = If(h.ufw = "inactive" \/ h.incoming = "allow", "no deny")
  BY DEF Probe, UfwFindings, Plain, ReadOnly, Simple
<1>20. Probe("ufw ssh", h) = If(h.ufw = "active" /\ h.sshRule = "allowed", "rule")
  BY DEF Probe, UfwFindings, Plain, ReadOnly, Simple
<1>21. Probe("ufw ssh egress", h) = If(h.ufw = "inactive" \/ h.sshOut = "missing", "no rule")
  BY DEF Probe, UfwFindings, Plain, ReadOnly, Simple
<1> QED
  BY <1>1, <1>2, <1>3, <1>4, <1>5, <1>6, <1>7, <1>8, <1>9, <1>10, <1>11, <1>12, <1>13, <1>14, <1>15, <1>16, <1>17, <1>18, <1>19, <1>20, <1>21

(* Settling is reflexive and composes: the host stays a settled form of the *)
(* baseline.                                                                *)
LEMMA SettledSelf ==
    ASSUME NEW h
    PROVE  Settled(h, h)
BY DEF Settled

LEMMA SettledOnward ==
    ASSUME NEW b, NEW h, NEW r, Settled(b, h), Settled(h, r)
    PROVE  Settled(b, r)
<1>1. \A f \in Facet \ Special : r[f] = b[f] \/ r[f] = Sound[f]
  BY DEF Settled
<1>2. r.accounts = b.accounts \/ r.accounts = b.accounts \ {"image"}
  BY DEF Settled
<1>3. r.userData = b.userData \/ (b.userData = "currentHash" /\ r.userData = "formerHash")
  BY DEF Settled
<1>4. r.packages = b.packages \/ r.packages = "current" \/ b.packages = "unseen"
  BY DEF Settled
<1> QED
  BY <1>1, <1>2, <1>3, <1>4 DEF Settled

(* A host that is not Ubuntu fails the platform check, so no check behind   *)
(* it gets a repair (remote_checks.go, the blocking check).                 *)
LEMMA PlatformReading ==
    ASSUME NEW h \in Host, h.platform # "good"
    PROVE  Grade(Probe("platform", h)) = "fail"
<1>1. h.platform = "bad" /\ "platform" \in Plain
  BY HostFacet, PlainFacet DEF Plain
<1>2. Probe("platform", h) = {"platform"}
  BY <1>1, ProbePlain DEF If
<1>3. ~({"platform"} \subseteq Warnings) /\ {"platform"} # {}
  BY DEF Warnings
<1> QED
  BY <1>2, <1>3 DEF Grade

(* A check that gets its repair rests on a trusted baseline of an Ubuntu    *)
(* host; the token check on a rejected or an absent token.                  *)
LEMMA TrustedReadings ==
    ASSUME NEW i, WantsRepair(i), WellTyped, i \in DOMAIN Checks
    PROVE  /\ trusted /\ base.platform = "good" /\ Script(Checks[i]) # "none"
           /\ Checks[i] = "gh token" => base.gh \in {"rejected", "absent"} /\ opt.pat # "none"
<1>1. /\ MayRepair(i) /\ trusted /\ Checks[i] \notin errors /\ Script(Checks[i]) # "none"
      /\ Reading(Checks[i]) # {} \/ Checks[i] = "tools"
      /\ Covers(Checks[i], Reading(Checks[i]))
  BY DEF WantsRepair, MayRepair
<1>2. cfg \in Configs /\ base \in Host /\ errors = {} /\ opt.fix
  BY <1>1 DEF WellTyped
<1>3. /\ Checks[1] = "platform" /\ Len(Checks) \in Nat /\ Len(Checks) > 30
      /\ DOMAIN Checks = 1 .. Len(Checks)
  BY <1>2, Places
<1>4. i # 1
  <2>1. Script("platform") = "none"
    BY DEF Script, ReadOnly
  <2> QED
    BY <1>1, <1>3, <2>1
<1>5. Outcome("platform") # "fail"
  <2>1. 1 \in 1 .. i - 1
    BY <1>3, <1>4
  <2> QED
    BY <1>1, <1>3, <2>1 DEF MayRepair, Blocking
<1>6. Source("platform") = base /\ Source("gh token") = base
  <2>1. Refreshed("platform") = {} /\ Refreshed("gh token") = {}
    BY DEF Refreshed
  <2> QED
    BY <2>1 DEF Source
<1>7. base.platform = "good"
  <2>1. Outcome("platform") = Grade(Probe("platform", base))
    BY <1>2, <1>6 DEF Outcome, GradeOf, Reading
  <2> QED
    BY <1>2, <1>5, <2>1, PlatformReading
<1>8. ASSUME Checks[i] = "gh token"
      PROVE  base.gh \in {"rejected", "absent"} /\ opt.pat # "none"
  <2>1. Reading("gh token") = If(base.gh # "stored", base.gh)
    BY <1>6, ProbeValues DEF Reading
  <2>2. Reading("gh token") # {} /\ Covers("gh token", Reading("gh token"))
    BY <1>1, <1>8
  <2>3. Reading("gh token") = {base.gh}
    BY <2>1, <2>2 DEF If
  <2>4. Reading("gh token") \subseteq {"rejected", "absent"} /\ opt.pat # "none"
    BY <2>2 DEF Covers
  <2> QED
    BY <2>3, <2>4
<1> QED
  BY <1>1, <1>7, <1>8

LEMMA InitTrusting == Init => Trusting
<1> SUFFICES ASSUME Init PROVE Trusting
  OBVIOUS
<1>1. Settled(base, host)
  BY SettledSelf DEF Init
<1> QED
  BY <1>1 DEF Init, Trusting, Working

(* The trust part of the invariant is inductive. *)
LEMMA TrustingStep == WellTyped /\ Trusting /\ [Next]_vars => Trusting'
<1> SUFFICES ASSUME WellTyped, Trusting, [Next]_vars PROVE Trusting'
  OBVIOUS
<1>0. /\ at # "done" => ~blocked
      /\ host.platform = first.platform /\ base.platform = first.platform
      /\ Settled(base, host)
      /\ at \in Working =>
           /\ trusted /\ base.platform = "good"
           /\ Current = "gh token" => base.gh \in {"rejected", "absent"}
      /\ at = "repair" /\ Current = "openssh" => routeAt = 0 \/ routeAt > pos
  BY DEF Trusting
<1>t. /\ cfg \in Configs /\ host \in Host /\ base \in Host
      /\ pos \in 1 .. Len(Checks) + 1
      /\ at \in Working => pos \in DOMAIN Checks
  BY DEF WellTyped
<1>n. /\ Len(Checks) \in Nat /\ Len(Checks) > 30 /\ DOMAIN Checks = 1 .. Len(Checks)
      /\ \A i \in DOMAIN Checks : Checks[i] \in Listed
  BY <1>t, Places
<1>k. cfg' = cfg => Checks' = Checks
  BY DEF Checks
<1>1. CASE Identify
  BY <1>0, <1>1 DEF Identify, Trusting, Working
<1>2. CASE Batch
  <2>1. base' = host /\ host' = host /\ first' = first /\ blocked' = blocked /\ at' = "check"
    BY <1>2 DEF Batch, settings
  <2>2. Settled(base', host')
    BY <2>1, SettledSelf
  <2> QED
    BY <1>0, <1>2, <2>1, <2>2 DEF Batch, Trusting, Working
<1>3. CASE Judge
  <2>1. /\ base' = base /\ host' = host /\ first' = first /\ blocked' = blocked /\ trusted' = trusted
        /\ routeAt' = routeAt /\ Checks' = Checks /\ at = "check"
    BY <1>3, <1>k DEF Judge, settings
  <2>2. PICK next \in pos .. Len(Checks) + 1 :
          /\ next \in DOMAIN Checks => GetsRepair(next)
          /\ pos' = next
          /\ at' = IF next > Len(Checks) THEN "done"
                   ELSE IF Checks[next] = "openssh" THEN "guard" ELSE "repair"
    BY <1>3 DEF Judge
  <2>3. Current' = Checks[next]
    BY <2>1, <2>2 DEF Current
  <2>4. CASE next > Len(Checks)
    BY <1>0, <2>1, <2>2, <2>4 DEF Trusting, Working
  <2>5. CASE ~(next > Len(Checks))
    <3>1. next \in DOMAIN Checks /\ WantsRepair(next)
      <4>1. next \in pos .. Len(Checks) + 1 /\ pos \in 1 .. Len(Checks) + 1 /\ Len(Checks) \in Nat
        BY <1>n, <1>t, <2>2
      <4>2. next \in 1 .. Len(Checks)
        BY <2>5, <4>1
      <4> QED
        BY <1>n, <2>2, <4>2 DEF GetsRepair
    <3>2. /\ trusted /\ base.platform = "good"
          /\ Checks[next] = "gh token" => base.gh \in {"rejected", "absent"}
      BY <3>1, TrustedReadings
    <3>3. at' = "repair" => Checks[next] # "openssh"
      BY <2>2, <2>5
    <3> QED
      BY <1>0, <2>1, <2>3, <3>2, <3>3 DEF Trusting
  <2> QED
    BY <2>4, <2>5
<1>4. CASE Guard
  <2>1. /\ base' = base /\ host' = host /\ first' = first /\ blocked' = blocked /\ trusted' = trusted
        /\ routeAt' = routeAt /\ Checks' = Checks /\ at = "guard"
    BY <1>4, <1>k DEF Guard, settings
  <2>2. CASE at' = "repair" /\ UNCHANGED <<verdict, pos>> /\ routeAt = 0
    <3>1. Current' = Current
      BY <2>1, <2>2 DEF Current
    <3> QED
      BY <1>0, <2>1, <2>2, <3>1 DEF Trusting, Working
  <2>3. CASE Report("fail")
    <3>1. at' \in {"done", "check"}
      BY <2>3 DEF Report
    <3> QED
      BY <1>0, <2>1, <3>1 DEF Trusting, Working
  <2> QED
    BY <1>4, <2>2, <2>3 DEF Guard
<1>5. CASE Repair
  <2>1. /\ base' = base /\ first' = first /\ blocked' = blocked /\ trusted' = trusted
        /\ routeAt' = routeAt /\ Checks' = Checks /\ at = "repair"
    BY <1>5, <1>k DEF Repair, settings
  <2>2. Current \in Scripted
    BY <1>n, <1>t, <2>1, ScriptedNames DEF WellTyped, Current, Working
  <2>3. PICK answer \in Repaired(Current, host) : host' = answer[1] \/ host' = host
    BY <1>5 DEF Repair
  <2>4. Keeps(Current, host, answer[1])
    BY <1>t, <2>2, RepairKeeps
  <2>5. Settled(base, host') /\ host'.platform = host.platform
    BY <1>0, <2>3, <2>4, SettledOnward DEF Keeps
  <2>6. CASE at' = "recheck" /\ UNCHANGED <<verdict, pos>>
    <3>1. Current' = Current
      BY <2>1, <2>6 DEF Current
    <3> QED
      BY <1>0, <2>1, <2>5, <2>6, <3>1 DEF Trusting, Working
  <2>7. CASE Report("fail")
    <3>1. at' \in {"done", "check"}
      BY <2>7 DEF Report
    <3> QED
      BY <1>0, <2>1, <2>5, <3>1 DEF Trusting, Working
  <2> QED
    BY <1>5, <2>6, <2>7 DEF Repair
<1>6. CASE Recheck
  <2>1. /\ base' = base /\ host' = host /\ first' = first /\ blocked' = blocked /\ trusted' = trusted
        /\ at = "recheck" /\ at' \in {"done", "check"}
    BY <1>6 DEF Recheck, settings, Report
  <2> QED
    BY <1>0, <2>1 DEF Trusting, Working
<1>7. CASE Retry
  BY <1>0, <1>7 DEF Retry, settings, Trusting, Working
<1>8. CASE AddRoute
  <2>1. Current' = Current
    BY <1>8, <1>k DEF AddRoute, settings, Current
  <2>2. at = "repair" => routeAt' > pos
    <3>1. pos \in Nat
      BY <1>t, <1>n
    <3>2. at = "repair" => routeAt' = pos + 1
      BY <1>8 DEF AddRoute
    <3> QED
      BY <3>1, <3>2
  <2> QED
    BY <1>0, <1>8, <2>1, <2>2 DEF AddRoute, settings, Trusting, Working
<1>9. CASE UNCHANGED vars
  <2>1. Current' = Current
    BY <1>9, <1>k DEF vars, Current
  <2> QED
    BY <1>0, <1>9, <2>1 DEF vars, Trusting
<1> QED
  BY <1>1, <1>2, <1>3, <1>4, <1>5, <1>6, <1>7, <1>8, <1>9 DEF Next

LEMMA AlwaysTrusting == Spec => [](WellTyped /\ Trusting)
<1>1. Init => WellTyped /\ Trusting
  BY InitTyped, InitTrusting
<1>2. WellTyped /\ Trusting /\ [Next]_vars => (WellTyped /\ Trusting)'
  BY TypedStep, TrustingStep
<1> QED
  BY <1>1, <1>2, PTL DEF Spec

(***************************************************************************)
(* Repairs change only a host whose identity was accepted, under --fix, on *)
(* Ubuntu and with a whole baseline; they replace no working or unverified *)
(* gh token (remote_gh_credentials.go:29), remove no account that the      *)
(* provider did not declare (remote_drift.go:93), and turn OpenSSH off     *)
(* only when no route to it was there when its check began                 *)
(* (remote_openssh.go:35).                                                 *)
(***************************************************************************)
THEOREM RepairsTrusted == Spec => TrustedRepairs
<1> DEFINE A == host' # host =>
         /\ ~blocked /\ opt.fix /\ errors = {} /\ first.platform = "good"
         /\ host'.gh # host.gh => host.gh \in {"rejected", "absent"} /\ opt.pat = "live"
         /\ "extra" \in host.accounts => "extra" \in host'.accounts
         /\ "narrow" \in host.accounts => "narrow" \in host'.accounts
         /\ host'.openssh # host.openssh => routeAt = 0 \/ routeAt > pos
<1>1. WellTyped /\ Trusting /\ [Next]_vars => [A]_vars
  <2> SUFFICES ASSUME WellTyped, Trusting, [Next]_vars, host' # host PROVE A
    OBVIOUS
  <2>1. Repair
    BY DEF Next, Identify, Batch, Judge, Guard, Recheck, Retry, AddRoute, vars
  <2>2. /\ at = "repair" /\ cfg \in Configs /\ host \in Host /\ base \in Host /\ pos \in DOMAIN Checks
        /\ trusted /\ opt.fix /\ errors = {} /\ Script(Current) # "none"
    BY <2>1 DEF Repair, WellTyped, Trusting, Working
  <2>3. ~blocked /\ first.platform = "good"
    BY <2>2 DEF Trusting, Working
  <2>4. Current \in Scripted
    BY <2>2, Places, ScriptedNames DEF Current
  <2>5. PICK answer \in Repaired(Current, host) : host' = answer[1]
    BY <2>1 DEF Repair
  <2>6. Keeps(Current, host, host')
    BY <2>2, <2>4, <2>5, RepairKeeps
  <2>7. host'.gh # host.gh => host.gh \in {"rejected", "absent"} /\ opt.pat = "live"
    <3> SUFFICES ASSUME host'.gh # host.gh
                 PROVE  host.gh \in {"rejected", "absent"} /\ opt.pat = "live"
      OBVIOUS
    <3>1. Current = "gh token" /\ opt.pat = "live"
      BY <2>6 DEF Keeps
    <3>2. base.gh \in {"rejected", "absent"}
      BY <2>2, <3>1 DEF Trusting, Working
    <3>3. "gh" \in Facet \ Special /\ Sound["gh"] = "stored"
      BY FacetValues DEF Special
    <3>4. host.gh = base.gh \/ host.gh = "stored"
      BY <3>3 DEF Trusting, Settled
    <3>5. host'.gh = host.gh \/ host'.gh = "stored"
      BY <2>6, <3>3 DEF Keeps, Settled
    <3> QED
      BY <3>1, <3>2, <3>4, <3>5
  <2>8. /\ "extra" \in host.accounts => "extra" \in host'.accounts
        /\ "narrow" \in host.accounts => "narrow" \in host'.accounts
    BY <2>6 DEF Keeps, Settled
  <2>9. host'.openssh # host.openssh => routeAt = 0 \/ routeAt > pos
    BY <2>2, <2>6 DEF Keeps, Trusting
  <2> QED
    BY <2>2, <2>3, <2>7, <2>8, <2>9
<1>2. Spec => [][A]_vars
  BY <1>1, AlwaysTrusting, PTL DEF Spec
<1> QED
  BY <1>2 DEF TrustedRepairs

-----------------------------------------------------------------------------
(* Passed checks *)

(* A settled host has no finding that it did not have before, but for its   *)
(* units and for packages that come to light.                               *)
LEMMA SettledHolds ==
    ASSUME NEW h \in Host, NEW r, Settled(h, r),
           NEW c \in Rereads, c # "units", Probe(c, h) = {}
    PROVE  Probe(c, r) = {}
<1>0. \A f \in Facet \ Special : r[f] = h[f] \/ r[f] = Sound[f]
  BY DEF Settled
<1>1. CASE c \in {"login", "forward"}
  <2>1. c \in Facet \ Special /\ Sound[c] = "hard"
    BY <1>1, FacetValues DEF Special
  <2>2. Probe(c, h) = SshdFindings(h, c) /\ Probe(c, r) = SshdFindings(r, c)
    BY <1>1, ProbeValues
  <2>3. h[c] = "hard"
    BY <2>2 DEF SshdFindings, If
  <2>4. r[c] = "hard"
    BY <1>0, <2>1, <2>3
  <2> QED
    BY <2>2, <2>4 DEF SshdFindings, If
<1>2. CASE c = "egress restricted"
  <2>1. /\ "ufw" \in Facet \ Special /\ Sound["ufw"] = "active"
        /\ "outgoing" \in Facet \ Special /\ Sound["outgoing"] = "deny"
        /\ "sshOut" \in Facet \ Special /\ Sound["sshOut"] = "allowed"
    BY FacetValues DEF Special
  <2>2. Probe(c, h) = EgressFindings(h) /\ Probe(c, r) = EgressFindings(r)
    BY <1>2, ProbeValues
  <2>3. h.ufw # "inactive" /\ h.outgoing # "allow" /\ h.sshOut # "missing"
    BY <2>2 DEF EgressFindings, If
  <2>4. r.ufw # "inactive" /\ r.outgoing # "allow" /\ r.sshOut # "missing"
    BY <1>0, <2>1, <2>3
  <2> QED
    BY <2>2, <2>4 DEF EgressFindings, If
<1>3. CASE c = "openssh"
  <2>1. "openssh" \in Facet \ Special /\ Sound["openssh"] = "masked"
    BY FacetValues DEF Special
  <2>2. Probe(c, h) = OpenSSHFindings(h) /\ Probe(c, r) = OpenSSHFindings(r)
    BY <1>3, ProbeValues
  <2>3. h.openssh = "masked"
    BY <2>2 DEF OpenSSHFindings, If
  <2>4. r.openssh = "masked"
    BY <1>0, <2>1, <2>3
  <2> QED
    BY <2>2, <2>4 DEF OpenSSHFindings, If
<1>4. CASE c = "apt config"
  <2>1. "apt config" \in Plain
    BY DEF Plain, Simple
  <2>2. "apt config" \in Facet \ Special /\ Sound["apt config"] = "good"
    BY <2>1, PlainFacet DEF Special
  <2>3. Probe(c, h) = If(h[c] = "bad", c) /\ Probe(c, r) = If(r[c] = "bad", c)
    BY <1>4, <2>1, ProbePlain
  <2>4. h[c] # "bad"
    BY <2>3 DEF If
  <2>5. r[c] # "bad"
    BY <1>0, <1>4, <2>2, <2>4
  <2> QED
    BY <2>3, <2>5 DEF If
<1>5. CASE c = "reboot survivability"
  <2>1. /\ "gate" \in Facet \ Special /\ Sound["gate"] = "installed"
        /\ "workload" \in Facet \ Special /\ Sound["workload"] = "declared"
    BY FacetValues DEF Special
  <2>2. Probe(c, h) = RebootFindings(h) /\ Probe(c, r) = RebootFindings(r)
    BY <1>5, ProbeValues
  <2>3. h.gate # "differs" /\ h.workload # "gap"
    BY <2>2 DEF RebootFindings, If
  <2>4. r.gate # "differs" /\ r.workload # "gap"
    BY <1>0, <2>1, <2>3
  <2> QED
    BY <2>2, <2>4 DEF RebootFindings, If
<1>6. CASE c = "accounts"
  <2>1. Probe(c, h) = h.accounts /\ Probe(c, r) = r.accounts
    BY <1>6, ProbeValues DEF AccountFindings
  <2>2. r.accounts = h.accounts \/ r.accounts = h.accounts \ {"image"}
    BY DEF Settled
  <2> QED
    BY <2>1, <2>2
<1>7. CASE c = "pin"
  <2>1. "pin" \in Facet \ Special /\ Sound["pin"] = "set"
    BY FacetValues DEF Special
  <2>2. Probe(c, h) = If(h.pin = "missing", "pin") /\ Probe(c, r) = If(r.pin = "missing", "pin")
    BY <1>7, ProbeValues
  <2>3. h.pin # "missing"
    BY <2>2 DEF If
  <2>4. r.pin # "missing"
    BY <1>0, <2>1, <2>3
  <2> QED
    BY <2>2, <2>4 DEF If
<1>8. CASE c = "ingress"
  <2>1. "connector" \in Facet \ Special /\ Sound["connector"] = "current"
    BY FacetValues DEF Special
  <2>2. Probe(c, h) = IngressFindings(h) /\ Probe(c, r) = IngressFindings(r)
    BY <1>8, ProbeValues
  <2>3. h.connector # "live"
    BY <2>2 DEF IngressFindings, If
  <2>4. r.connector # "live"
    BY <1>0, <2>1, <2>3
  <2> QED
    BY <2>2, <2>4 DEF IngressFindings, If
<1> QED
  BY <1>1, <1>2, <1>3, <1>4, <1>5, <1>6, <1>7, <1>8 DEF Rereads

(* The unit check finds nothing exactly where no unit failed. *)
LEMMA UnitHolds ==
    ASSUME NEW h \in Host
    PROVE  Probe("units", h) = {} <=> h.units = "healthy"
<1>1. Probe("units", h) = If(h.units = "failed", "units")
  BY ProbeValues DEF UnitFindings
<1>2. h.units \in {"healthy", "failed"}
  BY FacetValues, HostFacet
<1> QED
  BY <1>1, <1>2 DEF If

(* A check that re-reads passes only on a reading without findings. *)
LEMMA PassReading ==
    ASSUME NEW c \in Rereads, Outcome(c) = "pass"
    PROVE  Reading(c) = {}
<1>1. c # "gh token"
  BY DEF Rereads
<1>2. Grade(Reading(c)) = "pass"
  BY <1>1 DEF Outcome, GradeOf
<1> QED
  BY <1>2 DEF Grade

(* A repaired check passes only where its second reading is empty. *)
LEMMA PassAfter ==
    ASSUME NEW c, NEW findings, AfterGrade(c, findings) = "pass"
    PROVE  findings = {}
BY DEF AfterGrade, Grade

(* A result leaves the earlier ones alone. *)
LEMMA ReportVerdict ==
    ASSUME verdict \in Seq(Grades), Len(verdict) = pos - 1, pos \in Nat, NEW v, Report(v),
           NEW i \in DOMAIN verdict'
    PROVE  \/ i \in DOMAIN verdict /\ i < pos /\ verdict'[i] = verdict[i]
           \/ i = pos /\ verdict'[i] = v
<1>1. verdict' = Append(verdict, v)
  BY DEF Report
<1>2. i \in 1 .. Len(verdict) + 1
  BY <1>1
<1>3. CASE i = Len(verdict) + 1
  <2>1. verdict'[i] = v
    BY <1>1, <1>3
  <2> QED
    BY <1>3, <2>1
<1>4. CASE i \in 1 .. Len(verdict)
  <2>1. verdict'[i] = verdict[i] /\ i \in DOMAIN verdict
    BY <1>1, <1>4
  <2> QED
    BY <1>4, <2>1
<1> QED
  BY <1>2, <1>3, <1>4

(* The units are judged after both repairs that restart sshd. *)
LEMMA UnitsAfterSettings ==
    ASSUME cfg \in Configs, NEW i \in DOMAIN Checks, NEW j \in DOMAIN Checks, i < j,
           Checks[i] = "units"
    PROVE  Script(Checks[j]) # "sshd settings"
<1>1. /\ Rank(Checks[i]) < Rank(Checks[j]) /\ Checks[j] \in Listed
  BY Places
<1>2. Rank("units") = 11 /\ Rank("login") = 9 /\ Rank("forward") = 10
  BY DEF Rank
<1>3. Checks[j] \notin {"login", "forward"}
  BY <1>1, <1>2
<1>4. ASSUME NEW c \in Listed, c \notin {"login", "forward"}
      PROVE  Script(c) # "sshd settings"
  BY <1>4 DEF Script, Listed, Plain, ReadOnly, Simple, Scripted
<1> QED
  BY <1>1, <1>3, <1>4

LEMMA InitPassing == Init => Passing
<1> SUFFICES ASSUME Init PROVE Passing
  OBVIOUS
<1>1. host = base /\ verdict = <<>>
  BY DEF Init
<1>2. DOMAIN verdict = {}
  BY <1>1
<1> QED
  BY <1>1, <1>2 DEF Passing

(* The part about passed checks is inductive: each was read clean, at the   *)
(* baseline or live, and no later repair dirties it.                        *)
LEMMA PassingStep == WellTyped /\ Trusting /\ Passing /\ [Next]_vars => Passing'
<1> SUFFICES ASSUME WellTyped, Trusting, Passing, [Next]_vars PROVE Passing'
  OBVIOUS
<1>0. /\ "sshd settings" \notin ran /\ base.units = "healthy" => host.units = "healthy"
      /\ \A i \in DOMAIN verdict :
           verdict[i] = "pass" /\ Checks[i] \in Rereads => Probe(Checks[i], host) = {}
  BY DEF Passing, Holds
<1>t. /\ cfg \in Configs /\ host \in Host /\ base \in Host
      /\ pos \in 1 .. Len(Checks) + 1
      /\ at \in Working => pos \in DOMAIN Checks /\ Script(Current) # "none"
      /\ verdict \in Seq(Grades) /\ Len(verdict) = pos - 1
      /\ Settled(base, host)
  BY DEF WellTyped, Trusting
<1>n. /\ Len(Checks) \in Nat /\ Len(Checks) > 30 /\ DOMAIN Checks = 1 .. Len(Checks)
      /\ \A i \in DOMAIN Checks : Checks[i] \in Listed
  BY <1>t, Places
<1>p. pos \in Nat /\ DOMAIN verdict = 1 .. pos - 1 /\ DOMAIN verdict \subseteq DOMAIN Checks
  <2>1. pos \in Nat
    BY <1>t, <1>n
  <2>2. DOMAIN verdict = 1 .. Len(verdict)
    BY <1>t
  <2> QED
    BY <1>t, <1>n, <2>1, <2>2
<1>k. cfg' = cfg => Checks' = Checks
  BY DEF Checks
<1>s. ASSUME host' = host, base' = base, Checks' = Checks, ran' = ran,
             \A i \in DOMAIN verdict' :
               verdict'[i] = "pass" /\ Checks[i] \in Rereads => Probe(Checks[i], host) = {}
      PROVE  Passing'
  BY <1>0, <1>s DEF Passing, Holds
<1>f. ASSUME Report("fail"), NEW i \in DOMAIN verdict', verdict'[i] = "pass"
      PROVE  i \in DOMAIN verdict /\ verdict[i] = "pass"
  <2>1. \/ i \in DOMAIN verdict /\ i < pos /\ verdict'[i] = verdict[i]
        \/ i = pos /\ verdict'[i] = "fail"
    BY <1>f, <1>t, <1>p, ReportVerdict
  <2> QED
    BY <1>f, <2>1
<1>1. CASE Identify
  BY <1>0, <1>1, <1>k, <1>s DEF Identify
<1>2. CASE Batch
  <2>1. base' = host /\ host' = host /\ verdict' = <<>>
    BY <1>2 DEF Batch
  <2>2. DOMAIN verdict' = {}
    BY <2>1
  <2> QED
    BY <2>1, <2>2 DEF Passing
<1>3. CASE Judge
  <2>1. base' = base /\ host' = host /\ Checks' = Checks /\ ran' = ran
    BY <1>3, <1>k DEF Judge, settings
  <2>2. PICK next \in pos .. Len(Checks) + 1 :
          verdict' = [k \in 1 .. next - 1 |->
                        IF k < pos THEN verdict[k]
                        ELSE IF WantsRepair(k) THEN "fail" ELSE Outcome(Checks[k])]
    BY <1>3 DEF Judge
  <2>3. ASSUME NEW i \in DOMAIN verdict', verdict'[i] = "pass", Checks[i] \in Rereads
        PROVE  Probe(Checks[i], host) = {}
    <3>1. i \in 1 .. next - 1
      BY <2>2, <2>3
    <3>2. CASE i < pos
      <4>1. i \in DOMAIN verdict /\ verdict[i] = "pass"
        BY <1>p, <2>2, <2>3, <3>1, <3>2
      <4> QED
        BY <1>0, <2>3, <4>1
    <3>3. CASE ~(i < pos)
      <4>1. Outcome(Checks[i]) = "pass"
        BY <2>2, <2>3, <3>1, <3>3
      <4>2. Probe(Checks[i], Source(Checks[i])) = {}
        BY <2>3, <4>1, PassReading DEF Reading
      <4>3. CASE Source(Checks[i]) = host
        BY <4>2, <4>3
      <4>4. CASE Source(Checks[i]) = base /\ Checks[i] # "units"
        BY <1>t, <2>3, <4>2, <4>4, SettledHolds
      <4>5. CASE Source(Checks[i]) = base /\ Checks[i] = "units" /\ Source(Checks[i]) # host
        <5>1. Refreshed("units") = {"sshd settings"}
          BY DEF Refreshed
        <5>2. "sshd settings" \notin ran
          BY <4>5, <5>1 DEF Source
        <5>3. base.units = "healthy"
          BY <1>t, <4>2, <4>5, UnitHolds
        <5> QED
          BY <1>0, <1>t, <4>5, <5>2, <5>3, UnitHolds
      <4> QED
        BY <4>3, <4>4, <4>5 DEF Source
    <3> QED
      BY <3>2, <3>3
  <2> QED
    BY <1>s, <2>1, <2>3
<1>4. CASE Guard
  <2>1. base' = base /\ host' = host /\ Checks' = Checks /\ ran' = ran
    BY <1>4, <1>k DEF Guard, settings
  <2>2. CASE verdict' = verdict
    BY <1>0, <1>s, <2>1, <2>2
  <2>3. CASE Report("fail")
    BY <1>0, <1>s, <1>f, <2>1, <2>3
  <2> QED
    BY <1>4, <2>2, <2>3 DEF Guard
<1>5. CASE Repair
  <2>1. base' = base /\ Checks' = Checks /\ ran' = ran \union {Script(Current)} /\ at = "repair"
    BY <1>5, <1>k DEF Repair, settings
  <2>2. Current \in Scripted /\ pos \in DOMAIN Checks
    BY <1>n, <1>t, <2>1, ScriptedNames DEF Current, Working
  <2>3. PICK answer \in Repaired(Current, host) : host' = answer[1] \/ host' = host
    BY <1>5 DEF Repair
  <2>4. Keeps(Current, host, answer[1])
    BY <1>t, <2>2, RepairKeeps
  <2>5. /\ host' \in Host /\ Settled(host, host')
        /\ Script(Current) # "sshd settings" /\ host.units = "healthy" => host'.units = "healthy"
    BY <1>t, <2>3, <2>4, SettledSelf DEF Keeps
  <2>6. "sshd settings" \notin ran' /\ base'.units = "healthy" => host'.units = "healthy"
    BY <1>0, <2>1, <2>5
  <2>7. ASSUME NEW i \in DOMAIN verdict', verdict'[i] = "pass", Checks[i] \in Rereads
        PROVE  Probe(Checks[i], host') = {}
    <3>1. i \in DOMAIN verdict /\ verdict[i] = "pass"
      <4>1. CASE verdict' = verdict
        BY <2>7, <4>1
      <4>2. CASE Report("fail")
        BY <1>f, <2>7, <4>2
      <4> QED
        BY <1>5, <4>1, <4>2 DEF Repair
    <3>2. Probe(Checks[i], host) = {}
      BY <1>0, <2>7, <3>1
    <3>3. CASE Checks[i] # "units"
      BY <1>t, <2>5, <2>7, <3>2, <3>3, SettledHolds
    <3>4. CASE Checks[i] = "units"
      <4>1. i \in DOMAIN Checks /\ i < pos
        BY <1>p, <3>1
      <4>2. Script(Current) # "sshd settings"
        BY <1>t, <2>2, <3>4, <4>1, UnitsAfterSettings DEF Current
      <4>3. host.units = "healthy"
        BY <1>t, <3>2, <3>4, UnitHolds
      <4> QED
        BY <2>5, <3>4, <4>2, <4>3, UnitHolds
    <3> QED
      BY <3>3, <3>4
  <2> QED
    BY <2>1, <2>6, <2>7 DEF Passing, Holds
<1>6. CASE Recheck
  <2>1. base' = base /\ host' = host /\ Checks' = Checks /\ ran' = ran
    BY <1>6, <1>k DEF Recheck, settings
  <2>2. CASE Report("fail")
    BY <1>0, <1>s, <1>f, <2>1, <2>2
  <2>3. CASE Report(AfterGrade(Current, Probe(Current, host)))
    <3>1. ASSUME NEW i \in DOMAIN verdict', verdict'[i] = "pass", Checks[i] \in Rereads
          PROVE  Probe(Checks[i], host) = {}
      <4>1. \/ i \in DOMAIN verdict /\ i < pos /\ verdict'[i] = verdict[i]
            \/ i = pos /\ verdict'[i] = AfterGrade(Current, Probe(Current, host))
        BY <1>t, <1>p, <2>3, <3>1, ReportVerdict
      <4>2. CASE i \in DOMAIN verdict /\ verdict'[i] = verdict[i]
        BY <1>0, <3>1, <4>2
      <4>3. CASE i = pos /\ verdict'[i] = AfterGrade(Current, Probe(Current, host))
        BY <3>1, <4>3, PassAfter DEF Current
      <4> QED
        BY <4>1, <4>2, <4>3
    <3> QED
      BY <1>s, <2>1, <3>1
  <2> QED
    BY <1>6, <2>2, <2>3 DEF Recheck
<1>7. CASE Retry
  BY <1>0, <1>7, <1>k, <1>s DEF Retry, settings
<1>8. CASE AddRoute
  BY <1>0, <1>8, <1>k, <1>s DEF AddRoute, settings
<1>9. CASE UNCHANGED vars
  BY <1>0, <1>9, <1>k, <1>s DEF vars
<1> QED
  BY <1>1, <1>2, <1>3, <1>4, <1>5, <1>6, <1>7, <1>8, <1>9 DEF Next

(***************************************************************************)
(* A check that names the repairs which change what it reads               *)
(* (remote_checks.go:26-28) reports no pass that the host no longer        *)
(* deserves when the run ends, also after lost answers and repairs that    *)
(* failed.                                                                 *)
(***************************************************************************)
THEOREM PassesHold == Spec => []RefreshedPassHolds
<1>1. Init => WellTyped /\ Trusting /\ Passing
  BY InitTyped, InitTrusting, InitPassing
<1>2. WellTyped /\ Trusting /\ Passing /\ [Next]_vars => (WellTyped /\ Trusting /\ Passing)'
  BY TypedStep, TrustingStep, PassingStep
<1>3. Passing => RefreshedPassHolds
  <2> SUFFICES ASSUME Passing, NEW c \in Passed \intersect Rereads PROVE Holds(c)
    BY DEF RefreshedPassHolds
  <2>1. PICK i \in DOMAIN verdict : verdict[i] = "pass" /\ Checks[i] = c
    BY DEF Passed
  <2> QED
    BY <2>1 DEF Passing
<1> QED
  BY <1>1, <1>2, <1>3, PTL DEF Spec

-----------------------------------------------------------------------------
(* A run without mishaps *)

(* Two checks share a script only where the code names one script for both. *)
Twins == {{"sudo", "hash"}, {"login", "forward"}, {"ufw ssh egress", "egress restricted"}}

LEMMA SameScript ==
    ASSUME NEW c \in Scripted, NEW d \in Scripted, Script(c) = Script(d)
    PROVE  c = d \/ \E t \in Twins : c \in t /\ d \in t
<1>1. \A x \in Scripted :
        \/ \E t \in Twins : x \in t
        \/ Script(x) = x /\ x \notin {"sshd settings", "lockdown", "password"}
  BY DEF Script, Scripted, Simple, ReadOnly, Twins
<1>2. /\ Script("login") = "sshd settings" /\ Script("forward") = "sshd settings"
      /\ Script("ufw ssh egress") = "lockdown" /\ Script("egress restricted") = "lockdown"
      /\ Script("sudo") = "password" /\ Script("hash") = "password"
  BY DEF Script, ReadOnly
<1> QED
  BY <1>1, <1>2 DEF Twins

(* What a check needs for its repair to succeed. *)
Ready(c, h) ==
    /\ h.login # "overridden" /\ h.openssh # "used" /\ "extra" \notin h.accounts
    /\ c = "gh token" => opt.pat = "live"
    /\ c = "tools" => h.gh # "rejected"
    /\ c \in {"ufw deny", "ufw ssh egress", "egress restricted"} => h.ufw = "active"

Mended(c, a) ==
    /\ a[2] = TRUE /\ AfterGrade(c, Probe(c, a[1])) # "fail"
    /\ Script(c) = "sshd settings" => a[1].login = "hard" /\ a[1].forward = "hard"
    /\ Script(c) = "lockdown" => a[1].outgoing = "deny" /\ a[1].sshOut = "allowed"

(* A clean second reading does not fail. *)
LEMMA CleanPasses ==
    ASSUME NEW c, NEW findings, findings = {}
    PROVE  AfterGrade(c, findings) # "fail"
BY DEF AfterGrade

(* Two scripts belong to a pair of checks each. *)
LEMMA OtherScripts ==
    ASSUME NEW c \in Scripted
    PROVE  /\ c \notin {"login", "forward"} => Script(c) # "sshd settings"
           /\ c \notin {"ufw ssh egress", "egress restricted"} => Script(c) # "lockdown"
BY DEF Script, Scripted, Simple, ReadOnly

(* Each repair, where it finds what it needs, succeeds and leaves nothing   *)
(* that fails.                                                              *)
LEMMA ActiveMends ==
    ASSUME NEW h \in Host, NEW a \in Repaired("ufw active", h), Ready("ufw active", h)
    PROVE  Mended("ufw active", a)
<1>1. a[1] \in Host /\ a[2] = TRUE /\ a[1].ufw = "active"
  BY ActiveEffect DEF Ready
<1>2. Probe("ufw active", a[1]) = {}
  BY <1>1, ProbeValues DEF If
<1>3. "ufw active" \in Scripted
  BY DEF Scripted
<1> QED
  BY <1>1, <1>2, <1>3, CleanPasses, OtherScripts DEF Mended

LEMMA DenyMends ==
    ASSUME NEW h \in Host, NEW a \in Repaired("ufw deny", h), Ready("ufw deny", h)
    PROVE  Mended("ufw deny", a)
<1>1. a[1] \in Host /\ a[2] = TRUE /\ a[1].incoming = "deny" /\ a[1].ufw = "active"
  <2>1. /\ a[1].incoming = "deny" /\ a[1] \in Host /\ a[2] = TRUE
        /\ \A g \in Facet \ {"incoming"} : a[1][g] = h[g]
    BY DenyEffect
  <2>2. "ufw" \in Facet \ {"incoming"} /\ h.ufw = "active"
    BY FacetValues DEF Ready
  <2> QED
    BY <2>1, <2>2
<1>2. Probe("ufw deny", a[1]) = {}
  BY <1>1, ProbeValues DEF If
<1>3. "ufw deny" \in Scripted
  BY DEF Scripted
<1> QED
  BY <1>1, <1>2, <1>3, CleanPasses, OtherScripts DEF Mended

LEMMA RuleMends ==
    ASSUME NEW h \in Host, NEW a \in Repaired("ufw ssh", h), Ready("ufw ssh", h)
    PROVE  Mended("ufw ssh", a)
<1>1. a[1] \in Host /\ a[2] = TRUE /\ a[1].sshRule = "none"
  BY RuleEffect DEF Ready
<1>2. Probe("ufw ssh", a[1]) = {}
  BY <1>1, ProbeValues DEF If
<1>3. "ufw ssh" \in Scripted
  BY DEF Scripted
<1> QED
  BY <1>1, <1>2, <1>3, CleanPasses, OtherScripts DEF Mended

LEMMA UnitsMends ==
    ASSUME NEW h \in Host, NEW a \in Repaired("units", h), Ready("units", h)
    PROVE  Mended("units", a)
<1>1. a[1] \in Host /\ a[2] = TRUE /\ a[1].units = "healthy"
  BY UnitsEffect DEF Ready
<1>2. Probe("units", a[1]) = {}
  BY <1>1, ProbeValues DEF UnitFindings, If
<1>3. "units" \in Scripted
  BY DEF Scripted
<1> QED
  BY <1>1, <1>2, <1>3, CleanPasses, OtherScripts DEF Mended

LEMMA TokenMends ==
    ASSUME NEW h \in Host, NEW a \in Repaired("gh token", h), Ready("gh token", h)
    PROVE  Mended("gh token", a)
<1>1. a[1] \in Host /\ a[2] = TRUE /\ a[1].gh = "stored"
  BY TokenEffect DEF Ready
<1>2. Probe("gh token", a[1]) = {}
  BY <1>1, ProbeValues DEF If
<1>3. "gh token" \in Scripted
  BY DEF Scripted
<1> QED
  BY <1>1, <1>2, <1>3, CleanPasses, OtherScripts DEF Mended

LEMMA ToolMends ==
    ASSUME NEW h \in Host, NEW a \in Repaired("tools", h), Ready("tools", h)
    PROVE  Mended("tools", a)
<1>1. a[1] \in Host /\ a[2] = TRUE /\ a[1].tools = "good" /\ a[1].packages = "current" /\ a[1].mesh = "current"
  BY ToolEffect DEF Ready
<1>2. Probe("tools", a[1]) = {}
  BY <1>1, ProbeValues DEF ToolFindings, If
<1>3. "tools" \in Scripted
  BY DEF Scripted
<1> QED
  BY <1>1, <1>2, <1>3, CleanPasses, OtherScripts DEF Mended

LEMMA OpenSSHMends ==
    ASSUME NEW h \in Host, NEW a \in Repaired("openssh", h), Ready("openssh", h)
    PROVE  Mended("openssh", a)
<1>1. a[1] \in Host /\ a[2] = TRUE /\ a[1].openssh = "masked"
  BY OpenSSHEffect DEF Ready
<1>2. Probe("openssh", a[1]) = {}
  BY <1>1, ProbeValues DEF OpenSSHFindings, If
<1>3. "openssh" \in Scripted
  BY DEF Scripted
<1> QED
  BY <1>1, <1>2, <1>3, CleanPasses, OtherScripts DEF Mended

LEMMA ConnectorMends ==
    ASSUME NEW h \in Host, NEW a \in Repaired("connector", h), Ready("connector", h)
    PROVE  Mended("connector", a)
<1>1. a[1] \in Host /\ a[2] = TRUE /\ a[1].connector # "old"
  BY ConnectorEffect DEF Ready
<1>2. Probe("connector", a[1]) = {}
  BY <1>1, ProbeValues DEF ConnectorFindings, If
<1>3. "connector" \in Scripted
  BY DEF Scripted
<1> QED
  BY <1>1, <1>2, <1>3, CleanPasses, OtherScripts DEF Mended

LEMMA PinMends ==
    ASSUME NEW h \in Host, NEW a \in Repaired("pin", h), Ready("pin", h)
    PROVE  Mended("pin", a)
<1>1. a[1] \in Host /\ a[2] = TRUE /\ a[1].pin = "set"
  BY PinEffect DEF Ready
<1>2. Probe("pin", a[1]) = {}
  BY <1>1, ProbeValues DEF If
<1>3. "pin" \in Scripted
  BY DEF Scripted
<1> QED
  BY <1>1, <1>2, <1>3, CleanPasses, OtherScripts DEF Mended

LEMMA SimpleMends ==
    ASSUME NEW c \in Simple, NEW h \in Host, NEW a \in Repaired(c, h)
    PROVE  Mended(c, a)
<1>1. a[1][c] = "good" /\ a[2] = TRUE
  <2>1. OneSet(h, c, "good", a[1]) /\ a[2] = TRUE
    BY SimpleEffect
  <2> QED
    BY <2>1 DEF OneSet
<1>2. Probe(c, a[1]) = {}
  BY <1>1, ProbePlain DEF Plain, If
<1>3. c \in Scripted /\ c \notin {"login", "forward", "ufw ssh egress", "egress restricted"}
  BY DEF Scripted, Simple
<1> QED
  BY <1>1, <1>2, <1>3, CleanPasses, OtherScripts DEF Mended

LEMMA PasswordMends ==
    ASSUME NEW c \in {"sudo", "hash"}, NEW h \in Host, NEW a \in Repaired(c, h)
    PROVE  Mended(c, a)
<1>1. a[1].sudo = "password" /\ a[1].hash = "strong" /\ a[2] = TRUE
  BY PasswordEffect
<1>2. Probe(c, a[1]) = {}
  BY <1>1, ProbeValues DEF If
<1>3. c \in Scripted /\ c \notin {"login", "forward", "ufw ssh egress", "egress restricted"}
  BY DEF Scripted
<1> QED
  BY <1>1, <1>2, <1>3, CleanPasses, OtherScripts DEF Mended

LEMMA SettingsMend ==
    ASSUME NEW c \in {"login", "forward"}, NEW h \in Host, NEW a \in Repaired(c, h), Ready(c, h)
    PROVE  Mended(c, a)
<1>1. h.login \in {"hard", "soft", "overridden"} /\ h.login # "overridden"
  BY FacetValues, HostFacet DEF Ready
<1>2. a[1].login = "hard" /\ a[1].forward = "hard" /\ a[2] = TRUE
  BY <1>1, SettingsEffect
<1>3. Probe(c, a[1]) = {}
  BY <1>2, ProbeValues DEF SshdFindings, If
<1>4. c \in Scripted /\ c \notin {"ufw ssh egress", "egress restricted"}
  BY DEF Scripted
<1> QED
  BY <1>2, <1>3, <1>4, CleanPasses, OtherScripts DEF Mended

LEMMA LockdownMends ==
    ASSUME NEW c \in {"ufw ssh egress", "egress restricted"}, NEW h \in Host,
           NEW a \in Repaired(c, h), Ready(c, h)
    PROVE  Mended(c, a)
<1>1. h.ufw = "active"
  BY DEF Ready
<1>2. a[1].outgoing = "deny" /\ a[1].sshOut = "allowed" /\ a[1].ufw = "active" /\ a[2] = TRUE
  <2>1. /\ a[1].outgoing = "deny" /\ a[1].sshOut = "allowed" /\ a[2] = TRUE
        /\ \A g \in Facet \ {"outgoing", "sshOut"} : a[1][g] = h[g]
    BY <1>1, LockdownEffect
  <2>2. "ufw" \in Facet \ {"outgoing", "sshOut"}
    BY FacetValues
  <2> QED
    BY <1>1, <2>1, <2>2
<1>3. Probe(c, a[1]) = {}
  BY <1>2, ProbeValues DEF EgressFindings, If
<1>4. c \in Scripted /\ c \notin {"login", "forward"}
  BY DEF Scripted
<1> QED
  BY <1>2, <1>3, <1>4, CleanPasses, OtherScripts DEF Mended

LEMMA WarningsOnly ==
    ASSUME NEW findings, findings \subseteq Warnings
    PROVE  Grade(findings) # "fail"
BY DEF Grade

(* A repair that settles one half of its check leaves at most a warning. *)
LEMMA GateMends ==
    ASSUME NEW h \in Host, NEW a \in Repaired("reboot survivability", h)
    PROVE  Mended("reboot survivability", a)
<1>1. a[1].gate = "installed" /\ a[2] = TRUE
  BY GateEffect
<1>2. Probe("reboot survivability", a[1]) \subseteq {"gap"}
  <2>1. Probe("reboot survivability", a[1]) = RebootFindings(a[1])
    BY ProbeValues
  <2>2. RebootFindings(a[1]) \subseteq {"gap"}
    BY <1>1 DEF RebootFindings, If
  <2> QED
    BY <2>1, <2>2
<1>3. /\ ~Covers("reboot survivability", Probe("reboot survivability", a[1]))
      /\ Grade(Probe("reboot survivability", a[1])) # "fail"
  <2>1. {"gap"} \subseteq Warnings
    BY DEF Warnings
  <2> QED
    BY <1>2, <2>1, WarningsOnly DEF Covers
<1>4. AfterGrade("reboot survivability", Probe("reboot survivability", a[1])) # "fail"
  BY <1>3 DEF AfterGrade
<1>5. "reboot survivability" \in Scripted
  BY DEF Scripted
<1> QED
  BY <1>1, <1>4, <1>5, OtherScripts DEF Mended

LEMMA AccountMends ==
    ASSUME NEW h \in Host, NEW a \in Repaired("accounts", h), Ready("accounts", h)
    PROVE  Mended("accounts", a)
<1>1. h.accounts \subseteq {"image", "extra", "narrow"} /\ "extra" \notin h.accounts
  BY FacetValues, HostFacet DEF Ready
<1>2. a[1].accounts = h.accounts \ {"image"} /\ a[2] = TRUE
  BY AccountEffect
<1>3. Probe("accounts", a[1]) \subseteq {"narrow"}
  BY <1>1, <1>2, ProbeValues DEF AccountFindings
<1>4. /\ ~Covers("accounts", Probe("accounts", a[1]))
      /\ Grade(Probe("accounts", a[1])) # "fail"
  <2>1. {"narrow"} \subseteq Warnings
    BY DEF Warnings
  <2> QED
    BY <1>3, <2>1, WarningsOnly DEF Covers
<1>5. AfterGrade("accounts", Probe("accounts", a[1])) # "fail"
  BY <1>4 DEF AfterGrade
<1>6. "accounts" \in Scripted
  BY DEF Scripted
<1> QED
  BY <1>2, <1>5, <1>6, OtherScripts DEF Mended

(* All repairs. *)
LEMMA RepairMends ==
    ASSUME NEW h \in Host, NEW c \in Scripted, NEW a \in Repaired(c, h), Ready(c, h)
    PROVE  Mended(c, a)
<1>1. /\ c \in Simple => Mended(c, a)
      /\ c \in {"sudo", "hash"} => Mended(c, a)
      /\ c \in {"login", "forward"} => Mended(c, a)
      /\ c \in {"ufw ssh egress", "egress restricted"} => Mended(c, a)
  BY SimpleMends, PasswordMends, SettingsMend, LockdownMends
<1>2. /\ c = "ufw active" => Mended(c, a)
      /\ c = "ufw deny" => Mended(c, a)
      /\ c = "ufw ssh" => Mended(c, a)
      /\ c = "units" => Mended(c, a)
  BY ActiveMends, DenyMends, RuleMends, UnitsMends
<1>3. /\ c = "gh token" => Mended(c, a)
      /\ c = "tools" => Mended(c, a)
      /\ c = "openssh" => Mended(c, a)
      /\ c = "reboot survivability" => Mended(c, a)
  BY TokenMends, ToolMends, OpenSSHMends, GateMends
<1>4. /\ c = "accounts" => Mended(c, a)
      /\ c = "connector" => Mended(c, a)
      /\ c = "pin" => Mended(c, a)
  BY AccountMends, ConnectorMends, PinMends
<1> QED
  BY <1>1, <1>2, <1>3, <1>4 DEF Scripted

(* What of a repairable host stays so through every repair. *)
LEMMA RepairableStays ==
    ASSUME NEW h, NEW r, Repairable(h), Settled(h, r)
    PROVE  /\ r.login # "overridden" /\ r.openssh # "used" /\ "extra" \notin r.accounts
           /\ r.connector # "live"
<1>1. /\ h.login # "overridden" /\ h.openssh # "used" /\ "extra" \notin h.accounts
      /\ h.connector # "live"
  BY DEF Repairable
<1>2. /\ "login" \in Facet \ Special /\ Sound["login"] = "hard"
      /\ "openssh" \in Facet \ Special /\ Sound["openssh"] = "masked"
      /\ "connector" \in Facet \ Special /\ Sound["connector"] = "current"
  BY FacetValues DEF Special
<1>3. \A f \in Facet \ Special : r[f] = h[f] \/ r[f] = Sound[f]
  BY DEF Settled
<1>4. r.accounts = h.accounts \/ r.accounts = h.accounts \ {"image"}
  BY DEF Settled
<1>5. r["login"] # "overridden" /\ r["openssh"] # "used" /\ r["connector"] # "live"
  BY <1>1, <1>2, <1>3
<1> QED
  BY <1>1, <1>4, <1>5

(* Readings that do not fail: empty ones, those of a token, those with      *)
(* warnings only.                                                           *)
LEMMA CleanGrade ==
    ASSUME NEW c, NEW findings, findings = {}
    PROVE  GradeOf(c, findings) # "fail"
BY DEF GradeOf, Grade, GhGrade

LEMMA TokenGrade ==
    ASSUME NEW findings
    PROVE  GradeOf("gh token", findings) # "fail"
<1>1. \A gh : GhGrade(gh) # "fail"
  BY DEF GhGrade
<1> QED
  BY <1>1 DEF GradeOf

LEMMA WarningGrade ==
    ASSUME NEW c, NEW findings, findings \subseteq Warnings
    PROVE  GradeOf(c, findings) # "fail"
<1>1. CASE c = "gh token"
  BY <1>1, TokenGrade
<1>2. CASE c # "gh token"
  BY <1>2, WarningsOnly DEF GradeOf
<1> QED
  BY <1>1, <1>2

(* A check without a repair fails on no repairable host. *)
LEMMA UnrepairedGrade ==
    ASSUME NEW h \in Host, NEW r \in Host, Repairable(h), Settled(h, r), NEW c \in Listed,
           Script(c) = "none"
    PROVE  /\ c # "ingress" => GradeOf(c, Probe(c, h)) # "fail"
           /\ c = "ingress" => GradeOf(c, Probe(c, h)) # "fail" /\ GradeOf(c, Probe(c, r)) # "fail"
<1>0. c \in ReadOnly \union {"platform", "reboot pending", "user-data", "serve", "ingress"}
  BY DEF Script, Listed, Plain, Scripted, Simple
<1>1. CASE c \in ReadOnly \union {"platform"}
  <2>1. c \in Plain /\ h[c] = "good" /\ c # "ingress"
    BY <1>1 DEF Plain, Repairable, ReadOnly
  <2>2. Probe(c, h) = {}
    BY <2>1, ProbePlain DEF If
  <2> QED
    BY <2>1, <2>2, CleanGrade
<1>2. CASE c = "reboot pending"
  <2>1. Probe(c, h) \subseteq {"kernel"} /\ {"kernel"} \subseteq Warnings
    BY <1>2, ProbeValues DEF If, Warnings
  <2> QED
    BY <1>2, <2>1, WarningGrade
<1>3. CASE c = "user-data"
  <2>1. h.userData \in {"none", "formerHash"}
    <3>1. h.userData \in {"none", "formerHash", "currentHash"}
      BY FacetValues, HostFacet
    <3> QED
      BY <3>1 DEF Repairable
  <2>2. Probe(c, h) = If(h.userData # "none", h.userData)
    BY <1>3, ProbeValues DEF UserDataFindings
  <2>3. Probe(c, h) \subseteq {"formerHash"} /\ {"formerHash"} \subseteq Warnings
    BY <2>1, <2>2 DEF If, Warnings
  <2> QED
    BY <1>3, <2>3, WarningGrade
<1>4. CASE c = "serve"
  <2>1. Probe(c, h) = ServeFindings(h) /\ "funnel" \notin h.serve
    BY <1>4, ProbeValues DEF Repairable
  <2>2. ServeFindings(h) \subseteq {"backend"} /\ {"backend"} \subseteq Warnings
    BY <2>1 DEF ServeFindings, If, Warnings
  <2> QED
    BY <1>4, <2>1, <2>2, WarningGrade
<1>5. CASE c = "ingress"
  <2>1. h.connector # "live" /\ r.connector # "live"
    BY RepairableStays DEF Repairable
  <2>2. /\ Probe(c, h) = If(h.connector = "live", "ingress")
        /\ Probe(c, r) = If(r.connector = "live", "ingress")
    BY <1>5, ProbeValues DEF IngressFindings
  <2>3. Probe(c, h) = {} /\ Probe(c, r) = {}
    BY <2>1, <2>2 DEF If
  <2> QED
    BY <1>5, <2>3, CleanGrade
<1> QED
  BY <1>0, <1>1, <1>2, <1>3, <1>4, <1>5

(* What the repair of a check does not cover only warns there. *)
LEMMA UncoveredGrade ==
    ASSUME NEW h \in Host, "extra" \notin h.accounts, NEW c, ~Covers(c, Probe(c, h))
    PROVE  GradeOf(c, Probe(c, h)) # "fail"
<1>0. c \in {"reboot survivability", "accounts", "gh token"}
  BY DEF Covers
<1>1. CASE c = "reboot survivability"
  <2>1. Probe(c, h) = RebootFindings(h)
    BY <1>1, ProbeValues
  <2>2. "install" \notin RebootFindings(h)
    BY <1>1, <2>1 DEF Covers
  <2>3. RebootFindings(h) \subseteq {"gap"} /\ {"gap"} \subseteq Warnings
    BY <2>2 DEF RebootFindings, If, Warnings
  <2> QED
    BY <2>1, <2>3, WarningGrade
<1>2. CASE c = "accounts"
  <2>1. Probe(c, h) = h.accounts
    BY <1>2, ProbeValues DEF AccountFindings
  <2>2. "image" \notin h.accounts
    BY <1>2, <2>1 DEF Covers
  <2>3. h.accounts \subseteq {"image", "extra", "narrow"}
    BY FacetValues, HostFacet
  <2>4. h.accounts \subseteq {"narrow"} /\ {"narrow"} \subseteq Warnings
    BY <2>2, <2>3 DEF Warnings
  <2> QED
    BY <2>1, <2>4, WarningGrade
<1>3. CASE c = "gh token"
  BY <1>3, TokenGrade
<1> QED
  BY <1>0, <1>1, <1>2, <1>3

(* The checks up to the next repair, on a smooth run: none that wants its   *)
(* repair goes without, ...                                                 *)
LEMMA WantedIsGiven ==
    ASSUME WellTyped, Trusting, Smooth, Orderly, at = "check",
           NEW i \in DOMAIN Checks, i >= pos, WantsRepair(i)
    PROVE  GetsRepair(i)
<1> SUFFICES ASSUME Script(Checks[i]) \in ran, Checks[i] \notin Repeats
             PROVE  FALSE
  BY DEF GetsRepair
<1>t. cfg \in Configs /\ host \in Host /\ pos \in 1 .. Len(Checks) + 1
  BY DEF WellTyped
<1>l. Len(Checks) \in Nat /\ DOMAIN Checks = 1 .. Len(Checks) /\ Len(Checks) > 30
  BY <1>t, Places
<1>n. /\ \A k \in DOMAIN Checks : Checks[k] \in Listed
      /\ Checks[6] = "ufw active"
      /\ \A k, j \in DOMAIN Checks : k < j => Rank(Checks[k]) < Rank(Checks[j])
  BY <1>t, Places
<1>0. pos \in Nat /\ i \in Nat /\ i >= pos
  BY <1>t, <1>l
<1>1. PICK j \in DOMAIN Checks : Script(Checks[j]) = Script(Checks[i]) /\ j < pos
  BY DEF Orderly
<1>2. j \in Nat /\ j < i
  BY <1>0, <1>1, <1>l
<1>3. Rank(Checks[j]) < Rank(Checks[i])
  BY <1>1, <1>2, <1>n
<1>4. PICK c, d : c = Checks[i] /\ d = Checks[j]
  OBVIOUS
<1>5. /\ Script(c) # "none" /\ c \in Scripted /\ d \in Scripted /\ Script(c) = Script(d)
      /\ Script(c) \in ran /\ c \notin Repeats /\ Reading(c) # {}
  <2>1. Reading(c) # {} \/ c = "tools"
    BY <1>4 DEF WantsRepair
  <2>2. c # "tools"
    BY <1>4 DEF Repeats
  <2>3. Script(c) # "none"
    BY <1>4 DEF WantsRepair
  <2> QED
    BY <1>1, <1>4, <1>n, <2>1, <2>2, <2>3, ScriptedNames
<1>6. Rank(d) < Rank(c) /\ Rank(d) # Rank(c)
  <2>1. Rank(d) \in Nat /\ Rank(c) \in Nat
    BY <1>5 DEF Rank, Scripted, Simple
  <2> QED
    BY <1>3, <1>4, <2>1
<1>7. \E t \in Twins : c \in t /\ d \in t
  BY <1>5, <1>6, SameScript
<1>8. CASE c \in {"login", "forward"} /\ d \in {"login", "forward"}
  <2>1. c = "forward"
    <3>1. Rank("login") = 9 /\ Rank("forward") = 10
      BY DEF Rank
    <3> QED
      BY <1>6, <1>8, <3>1
  <2>2. Script(c) = "sshd settings" /\ Refreshed(c) = {"sshd settings"}
    BY <2>1 DEF Script, Refreshed, ReadOnly
  <2>3. Source(c) = host
    BY <1>5, <2>2 DEF Source
  <2>4. host.forward = "hard"
    BY <1>5, <2>2 DEF Orderly
  <2>5. Probe(c, host) = {}
    BY <2>1, <2>4, ProbeValues DEF SshdFindings, If
  <2> QED
    BY <1>5, <2>3, <2>5 DEF Reading
<1>9. CASE c \in {"ufw ssh egress", "egress restricted"} /\ d \in {"ufw ssh egress", "egress restricted"}
  <2>1. c = "egress restricted" /\ d = "ufw ssh egress"
    <3>1. PICK x, y : x = "ufw ssh egress" /\ y = "egress restricted"
      OBVIOUS
    <3>2. Rank(x) = 19 /\ Rank(y) = 20
      BY <3>1 DEF Rank
    <3>3. c \in {x, y} /\ d \in {x, y}
      BY <1>9, <3>1
    <3>4. c # d /\ ~(c = x /\ d = y)
      BY <1>6, <3>2
    <3>5. c = y /\ d = x
      BY <3>3, <3>4
    <3> QED
      BY <3>1, <3>5
  <2>2. Script(c) = "lockdown" /\ Refreshed(c) = {"lockdown"}
    BY <2>1 DEF Script, Refreshed, ReadOnly
  <2>3. Source(c) = host
    BY <1>5, <2>2 DEF Source
  <2>4. host.outgoing = "deny" /\ host.sshOut = "allowed"
    BY <1>5, <2>2 DEF Orderly
  <2>5. host.ufw = "active"
    <3>1. Rank("ufw active") = 6 /\ Rank("ufw ssh egress") = 19
      BY DEF Rank
    <3>2. 6 \in DOMAIN Checks
      BY <1>l
    <3>3. ~(j < 6) /\ j # 6
      <4>1. Rank(Checks[6]) = 6 /\ Rank(Checks[j]) = 19
        BY <1>4, <1>n, <2>1, <3>1
      <4>2. j < 6 => Rank(Checks[j]) < Rank(Checks[6])
        BY <1>1, <1>n, <3>2
      <4> QED
        BY <4>1, <4>2
    <3>4. 6 \in 1 .. pos - 1
      BY <1>0, <1>1, <1>2, <3>3
    <3> QED
      BY <1>n, <3>4 DEF Orderly
  <2>6. Probe(c, host) = {}
    <3>1. Probe(c, host) = EgressFindings(host)
      BY <2>1, ProbeValues
    <3> QED
      BY <2>4, <2>5, <3>1 DEF EgressFindings, If
  <2> QED
    BY <1>5, <2>3, <2>6 DEF Reading
<1>10. c \notin {"sudo", "hash"}
  BY <1>5 DEF Repeats
<1> QED
  BY <1>7, <1>8, <1>9, <1>10 DEF Twins

(* ... and none that wants no repair fails.                                 *)
LEMMA UnwantedIsFine ==
    ASSUME WellTyped, Trusting, Smooth, Orderly, NEW i \in DOMAIN Checks, ~WantsRepair(i)
    PROVE  /\ Outcome(Checks[i]) # "fail"
           /\ Checks[i] = "ufw active" => host.ufw = "active"
           /\ Checks[i] = "gh token" => host.gh # "rejected"
<1>t. /\ cfg \in Configs /\ host \in Host /\ base \in Host /\ opt \in Options
      /\ Settled(base, host) /\ base = first /\ trusted /\ errors = {} /\ Repairable(base)
  BY DEF WellTyped, Trusting, Smooth, Orderly
<1>0. PICK c : c = Checks[i]
  OBVIOUS
<1>n. c \in Listed
  BY <1>0, <1>t, Places
<1>s. \A d : Source(d) = host \/ Source(d) = base
  BY DEF Source
<1>h. \A d : "extra" \notin Source(d).accounts /\ Source(d) \in Host
  BY <1>s, <1>t, RepairableStays DEF Repairable
<1>m. MayRepair(i)
  <2>1. Source("platform") = base
    BY DEF Source, Refreshed
  <2>2. "platform" \in Plain /\ base["platform"] = "good"
    BY <1>t DEF Plain, Repairable
  <2>3. Probe("platform", base) = {}
    BY <2>2, ProbePlain DEF If
  <2>4. Outcome("platform") # "fail"
    BY <1>t, <2>1, <2>3, CleanGrade DEF Outcome, Reading
  <2> QED
    BY <1>t, <2>4 DEF MayRepair, Blocking
<1>d. Script(c) = "none" \/ (Reading(c) = {} /\ c # "tools") \/ ~Covers(c, Reading(c))
  BY <1>0, <1>m, <1>t DEF WantsRepair
<1>1. CASE Script(c) = "none"
  <2>1. GradeOf(c, Reading(c)) # "fail"
    <3>1. CASE c = "ingress"
      BY <1>1, <1>n, <1>s, <1>t, <3>1, UnrepairedGrade DEF Reading
    <3>2. CASE c # "ingress"
      <4>1. c \in ReadOnly \union {"platform", "reboot pending", "user-data", "serve"}
        BY <1>1, <1>n, <3>2 DEF Script, Listed, Plain, Scripted, Simple
      <4>2. Refreshed(c) = {} /\ c # "hash"
        BY <4>1 DEF Refreshed, ReadOnly
      <4>3. Source(c) = base
        BY <4>2 DEF Source
      <4> QED
        BY <1>1, <1>n, <1>t, <3>2, <4>3, UnrepairedGrade DEF Reading
    <3> QED
      BY <3>1, <3>2
  <2>2. c \notin {"ufw active", "gh token"}
    BY <1>1 DEF Script, ReadOnly
  <2> QED
    BY <1>0, <1>t, <2>1, <2>2 DEF Outcome
<1>2. CASE Script(c) # "none"
  <2>1. GradeOf(c, Reading(c)) # "fail"
    <3>1. CASE Reading(c) = {}
      BY <3>1, CleanGrade
    <3>2. CASE ~Covers(c, Reading(c))
      BY <1>h, <3>2, UncoveredGrade DEF Reading
    <3> QED
      BY <1>2, <1>d, <3>1, <3>2
  <2>2. ASSUME c = "ufw active" PROVE host.ufw = "active"
    <3>1. Source(c) = base
      BY <2>2 DEF Source, Refreshed
    <3>2. Reading(c) = {}
      BY <1>2, <1>d, <2>2 DEF Covers
    <3>3. If(base.ufw = "inactive", "inactive") = {}
      BY <2>2, <3>1, <3>2, ProbeValues DEF Reading
    <3>4. "ufw" \in Facet \ Special /\ Sound["ufw"] = "active" /\ base["ufw"] \in {"active", "inactive"}
      BY <1>t, FacetValues, HostFacet DEF Special
    <3>5. base["ufw"] = "active"
      BY <3>3, <3>4 DEF If
    <3> QED
      BY <1>t, <3>4, <3>5 DEF Settled
  <2>3. ASSUME c = "gh token" PROVE host.gh # "rejected"
    <3>1. Source(c) = base
      BY <2>3 DEF Source, Refreshed
    <3>2. Reading(c) = If(base.gh # "stored", base.gh)
      BY <2>3, <3>1, ProbeValues DEF Reading
    <3>3. base.gh # "rejected"
      <4> SUFFICES ASSUME base.gh = "rejected" PROVE FALSE
        OBVIOUS
      <4>1. opt.pat = "live"
        BY <1>t DEF Repairable
      <4>2. Reading(c) = {"rejected"}
        BY <3>2 DEF If
      <4>3. Covers(c, Reading(c))
        BY <2>3, <4>1, <4>2 DEF Covers
      <4> QED
        BY <1>2, <1>d, <4>2, <4>3
    <3>4. "gh" \in Facet \ Special /\ Sound["gh"] = "stored"
      BY FacetValues DEF Special
    <3> QED
      BY <1>t, <3>3, <3>4 DEF Settled
  <2> QED
    BY <1>0, <1>t, <2>1, <2>2, <2>3 DEF Outcome
<1> QED
  BY <1>1, <1>2

LEMMA InitSettling == Init => Settling
<1> SUFFICES ASSUME Init PROVE Settling
  OBVIOUS
<1>1. at = "identify" /\ host = first
  BY DEF Init
<1> QED
  BY <1>1 DEF Settling

(* What a repair settled stays settled through the later ones. *)
LEMMA OrderlyHost ==
    ASSUME NEW h \in Host, NEW r, Settled(h, r)
    PROVE  /\ h.login = "hard" => r.login = "hard"
           /\ h.forward = "hard" => r.forward = "hard"
           /\ h.outgoing = "deny" => r.outgoing = "deny"
           /\ h.sshOut = "allowed" => r.sshOut = "allowed"
           /\ h.ufw = "active" => r.ufw = "active"
           /\ h.gh # "rejected" => r.gh # "rejected"
<1>1. /\ "login" \in Facet \ Special /\ Sound["login"] = "hard"
      /\ "forward" \in Facet \ Special /\ Sound["forward"] = "hard"
      /\ "outgoing" \in Facet \ Special /\ Sound["outgoing"] = "deny"
      /\ "sshOut" \in Facet \ Special /\ Sound["sshOut"] = "allowed"
      /\ "ufw" \in Facet \ Special /\ Sound["ufw"] = "active"
      /\ "gh" \in Facet \ Special /\ Sound["gh"] = "stored"
  BY FacetValues DEF Special
<1>2. \A f \in Facet \ Special : r[f] = h[f] \/ r[f] = Sound[f]
  BY DEF Settled
<1>3. /\ h["login"] = "hard" => r["login"] = "hard"
      /\ h["forward"] = "hard" => r["forward"] = "hard"
      /\ h["outgoing"] = "deny" => r["outgoing"] = "deny"
  BY <1>1, <1>2
<1>4. /\ h["sshOut"] = "allowed" => r["sshOut"] = "allowed"
      /\ h["ufw"] = "active" => r["ufw"] = "active"
      /\ h["gh"] # "rejected" => r["gh"] # "rejected"
  BY <1>1, <1>2
<1> QED
  BY <1>3, <1>4

(* The check at hand finds what its repair needs. *)
LEMMA ReadyAtHand ==
    ASSUME WellTyped, Trusting, Smooth, Orderly, at \in Working
    PROVE  Ready(Current, host)
<1>t. /\ cfg \in Configs /\ host \in Host /\ pos \in DOMAIN Checks
      /\ Settled(base, host) /\ base = first /\ Repairable(base)
  BY DEF WellTyped, Trusting, Smooth, Orderly
<1>l. Len(Checks) \in Nat /\ DOMAIN Checks = 1 .. Len(Checks) /\ Len(Checks) > 30
  BY <1>t, Places
<1>n. /\ Checks[6] = "ufw active" /\ Checks[15] = "gh token"
      /\ \A k, j \in DOMAIN Checks : k < j => Rank(Checks[k]) < Rank(Checks[j])
  BY <1>t, Places
<1>0. pos \in Nat /\ 6 \in DOMAIN Checks /\ 15 \in DOMAIN Checks
  BY <1>t, <1>l
<1>1. PICK c : c = Current /\ c = Checks[pos]
  BY DEF Current
<1>2. host.login # "overridden" /\ host.openssh # "used" /\ "extra" \notin host.accounts
  BY <1>t, RepairableStays
<1>3. c = "gh token" => opt.pat = "live"
  BY <1>1 DEF Orderly
<1>4. ASSUME c = "tools" PROVE host.gh # "rejected"
  <2>1. Rank(Checks[15]) = 15 /\ Rank(Checks[pos]) = 16
    BY <1>1, <1>4, <1>n DEF Rank
  <2>2. pos < 15 => Rank(Checks[pos]) < Rank(Checks[15])
    BY <1>t, <1>n, <1>0
  <2>3. pos # 15
    BY <2>1
  <2>4. 15 \in 1 .. pos - 1
    BY <1>0, <2>1, <2>2, <2>3
  <2> QED
    BY <1>n, <2>4 DEF Orderly
<1>5. ASSUME c \in {"ufw deny", "ufw ssh egress", "egress restricted"} PROVE host.ufw = "active"
  <2>1. /\ Rank("ufw active") = 6 /\ Rank("ufw deny") = 7
        /\ Rank("ufw ssh egress") = 19 /\ Rank("egress restricted") = 20
    BY DEF Rank
  <2>2. Rank(Checks[6]) = 6 /\ Rank(Checks[pos]) \in {7, 19, 20}
    BY <1>1, <1>5, <1>n, <2>1
  <2>3. pos < 6 => Rank(Checks[pos]) < Rank(Checks[6])
    BY <1>t, <1>n, <1>0
  <2>4. pos # 6
    BY <2>2
  <2>5. 6 \in 1 .. pos - 1
    BY <1>0, <2>2, <2>3, <2>4
  <2> QED
    BY <1>n, <2>5 DEF Orderly
<1> QED
  BY <1>1, <1>2, <1>3, <1>4, <1>5 DEF Ready

(* The part about smooth runs is inductive. *)
LEMMA SettlingStep == WellTyped /\ Trusting /\ Settling /\ [Next]_vars => Settling'
<1> SUFFICES ASSUME WellTyped, Trusting, Settling, [Next]_vars PROVE Settling'
  OBVIOUS
<1>0. /\ at \in {"identify", "batch"} /\ opt.fix => host = first
      /\ Smooth /\ at \notin {"identify", "batch"} => Orderly
  BY DEF Settling
<1>t. /\ cfg \in Configs /\ host \in Host /\ base \in Host /\ opt \in Options
      /\ pos \in 1 .. Len(Checks) + 1 /\ faults \in 0 .. Faults
      /\ routeAt \in 0 .. Len(Checks) + 1
      /\ at \in Working => pos \in DOMAIN Checks /\ Script(Current) # "none"
      /\ verdict \in Seq(Grades) /\ Len(verdict) = pos - 1
      /\ Settled(base, host)
  BY DEF WellTyped, Trusting
<1>l. Len(Checks) \in Nat /\ DOMAIN Checks = 1 .. Len(Checks) /\ Len(Checks) > 30
  BY <1>t, Places
<1>n. \A i \in DOMAIN Checks : Checks[i] \in Listed
  BY <1>t, Places
<1>p. pos \in Nat /\ faults \in Nat /\ pos >= 1 /\ DOMAIN verdict = 1 .. pos - 1
  <2>1. pos \in Nat /\ faults \in Nat /\ pos >= 1
    BY <1>t, <1>l, BoundsAssumption
  <2>2. DOMAIN verdict = 1 .. Len(verdict)
    BY <1>t
  <2> QED
    BY <1>t, <2>1, <2>2
<1>k. cfg' = cfg => Checks' = Checks
  BY DEF Checks
<1>v. ASSUME NEW v, v # "fail", Report(v), \A i \in DOMAIN verdict : verdict[i] # "fail",
             NEW i \in DOMAIN verdict'
      PROVE  verdict'[i] # "fail"
  <2>1. \/ i \in DOMAIN verdict /\ i < pos /\ verdict'[i] = verdict[i]
        \/ i = pos /\ verdict'[i] = v
    BY <1>v, <1>t, <1>p, ReportVerdict
  <2> QED
    BY <1>v, <2>1
<1>1. CASE Identify
  <2>1. CASE blocked' = TRUE /\ at' = "done"
    BY <2>1 DEF Settling, Smooth
  <2>2. CASE blocked' = FALSE /\ at' = "batch"
    BY <1>0, <1>1, <2>2 DEF Identify, Settling
  <2> QED
    BY <1>1, <2>1, <2>2 DEF Identify
<1>2. CASE Batch
  <2> SUFFICES ASSUME Smooth' PROVE Orderly'
    BY <1>2 DEF Batch, Settling
  <2>1. opt' = opt /\ first' = first /\ opt'.fix /\ errors' = {}
    BY <1>2 DEF Batch, settings, Smooth
  <2>2. base' = first' /\ trusted'
    BY <1>0, <1>2, <2>1 DEF Batch
  <2>3. verdict' = <<>> /\ ran' = {} /\ pos' = 1 /\ at' = "check"
    BY <1>2 DEF Batch
  <2>4. DOMAIN verdict' = {} /\ 1 .. pos' - 1 = {}
    BY <2>3
  <2> QED
    BY <2>2, <2>3, <2>4 DEF Orderly, Working
<1>3. CASE Judge
  <2> SUFFICES ASSUME Smooth' PROVE Orderly'
    BY <1>3 DEF Judge, Settling
  <2>1. /\ base' = base /\ host' = host /\ first' = first /\ blocked' = blocked /\ trusted' = trusted
        /\ errors' = errors /\ opt' = opt /\ faults' = faults /\ ran' = ran
        /\ routeAt' = routeAt /\ Checks' = Checks /\ at = "check"
    BY <1>3, <1>k DEF Judge, settings
  <2>2. Smooth /\ Orderly
    BY <1>0, <2>1 DEF Smooth, Repairable
  <2>o. /\ base = first /\ trusted
        /\ \A i \in DOMAIN verdict : verdict[i] # "fail"
        /\ \A s \in ran : \E j \in DOMAIN Checks : Script(Checks[j]) = s /\ j < pos
        /\ "sshd settings" \in ran => host.login = "hard" /\ host.forward = "hard"
        /\ "lockdown" \in ran => host.outgoing = "deny" /\ host.sshOut = "allowed"
        /\ \A k \in 1 .. pos - 1 :
             /\ Checks[k] = "ufw active" => host.ufw = "active"
             /\ Checks[k] = "gh token" => host.gh # "rejected"
    BY <2>1, <2>2 DEF Orderly
  <2>3. PICK next \in pos .. Len(Checks) + 1 :
          /\ next \in DOMAIN Checks => GetsRepair(next)
          /\ \A k \in pos .. next - 1 : ~GetsRepair(k)
          /\ pos' = next
          /\ verdict' = [k \in 1 .. next - 1 |->
                           IF k < pos THEN verdict[k]
                           ELSE IF WantsRepair(k) THEN "fail" ELSE Outcome(Checks[k])]
          /\ at' = IF next > Len(Checks) THEN "done"
                   ELSE IF Checks[next] = "openssh" THEN "guard" ELSE "repair"
    BY <1>3 DEF Judge
  <2>4. next \in Nat /\ next >= pos /\ next <= Len(Checks) + 1
    BY <1>p, <1>l
  <2>5. ASSUME NEW k \in 1 .. next - 1, ~(k < pos)
        PROVE  /\ ~WantsRepair(k) /\ Outcome(Checks[k]) # "fail"
               /\ Checks[k] = "ufw active" => host.ufw = "active"
               /\ Checks[k] = "gh token" => host.gh # "rejected"
    <3>1. k \in DOMAIN Checks /\ k >= pos /\ k \in pos .. next - 1
      BY <1>l, <1>p, <2>4, <2>5
    <3>2. ~GetsRepair(k)
      BY <2>3, <3>1
    <3>3. ~WantsRepair(k)
      BY <2>1, <2>2, <3>1, <3>2, WantedIsGiven
    <3> QED
      BY <2>2, <3>1, <3>3, UnwantedIsFine
  <2>6. ASSUME NEW i \in DOMAIN verdict' PROVE verdict'[i] # "fail"
    <3>1. i \in 1 .. next - 1
      BY <2>3
    <3>2. CASE i < pos
      <4>1. i \in DOMAIN verdict /\ verdict'[i] = verdict[i]
        BY <1>p, <2>3, <2>4, <3>1, <3>2
      <4> QED
        BY <2>o, <4>1
    <3>3. CASE ~(i < pos)
      <4>1. ~WantsRepair(i) /\ Outcome(Checks[i]) # "fail"
        BY <2>5, <3>1, <3>3
      <4> QED
        BY <2>3, <3>1, <3>3, <4>1
    <3> QED
      BY <3>2, <3>3
  <2>7. \A s \in ran : \E j \in DOMAIN Checks : Script(Checks[j]) = s /\ j < next
    <3>1. \A j \in DOMAIN Checks : j < pos => j < next
      BY <1>l, <1>p, <2>4
    <3> QED
      BY <2>o, <3>1
  <2>8. ASSUME NEW k \in 1 .. next - 1
        PROVE  /\ Checks[k] = "ufw active" => host.ufw = "active"
               /\ Checks[k] = "gh token" => host.gh # "rejected"
    <3>1. CASE k < pos
      <4>1. k \in 1 .. pos - 1
        BY <1>p, <2>4, <3>1
      <4> QED
        BY <2>o, <4>1
    <3>2. CASE ~(k < pos)
      BY <2>5, <3>2
    <3> QED
      BY <3>1, <3>2
  <2>9. ASSUME at' \in Working, Checks[next] = "gh token" PROVE opt.pat = "live"
    <3>1. ~(next > Len(Checks))
      BY <2>3, <2>9 DEF Working
    <3>2. next \in DOMAIN Checks
      BY <1>l, <1>p, <2>4, <3>1
    <3>3. WantsRepair(next)
      BY <2>3, <3>2 DEF GetsRepair
    <3>4. base.gh \in {"rejected", "absent"} /\ opt.pat # "none"
      BY <2>9, <3>2, <3>3, TrustedReadings
    <3>5. /\ base.gh = "rejected" => opt.pat = "live"
          /\ base.gh = "absent" => opt.pat # "dead"
      BY <2>2, <2>o DEF Smooth, Repairable
    <3>6. opt.pat \in {"none", "live", "dead"}
      BY <1>t DEF Options
    <3> QED
      BY <3>4, <3>5, <3>6
  <2>10. at' # "recheck" /\ Current' = Checks[next]
    BY <2>1, <2>3 DEF Current
  <2> QED
    BY <2>1, <2>3, <2>o, <2>6, <2>7, <2>8, <2>9, <2>10 DEF Orderly
<1>f. ASSUME Fault PROVE ~Smooth'
  BY <1>f, <1>p DEF Fault, Smooth
<1>4. CASE Guard
  <2> SUFFICES ASSUME Smooth' PROVE Orderly'
    BY <1>4 DEF Guard, Settling, Report
  <2>1. /\ base' = base /\ host' = host /\ first' = first /\ blocked' = blocked /\ trusted' = trusted
        /\ errors' = errors /\ opt' = opt /\ ran' = ran
        /\ routeAt' = routeAt /\ Checks' = Checks /\ at = "guard"
    BY <1>4, <1>k DEF Guard, settings
  <2>2. routeAt = 0 /\ NoFault /\ at' = "repair" /\ verdict' = verdict /\ pos' = pos
    BY <1>4, <1>f, <2>1 DEF Guard, Smooth
  <2>3. Smooth /\ Orderly
    BY <1>0, <2>1, <2>2 DEF Smooth, Repairable, NoFault
  <2>4. Current' = Current
    BY <2>1, <2>2 DEF Current
  <2> QED
    BY <2>1, <2>2, <2>3, <2>4 DEF Orderly, Working
<1>5. CASE Repair
  <2> SUFFICES ASSUME Smooth' PROVE Orderly'
    BY <1>5 DEF Repair, Settling, Report
  <2>1. /\ base' = base /\ first' = first /\ blocked' = blocked /\ trusted' = trusted
        /\ errors' = errors /\ opt' = opt /\ ran' = ran \union {Script(Current)}
        /\ routeAt' = routeAt /\ Checks' = Checks /\ at = "repair"
    BY <1>5, <1>k DEF Repair, settings
  <2>2. PICK answer \in Repaired(Current, host) :
          /\ NoFault /\ host' = answer[1]
          /\ IF answer[2] THEN at' = "recheck" /\ UNCHANGED <<verdict, pos>> ELSE Report("fail")
    BY <1>5, <1>f DEF Repair
  <2>3. Smooth /\ Orderly
    BY <1>0, <2>1, <2>2 DEF Smooth, Repairable, NoFault
  <2>4. Current \in Scripted /\ pos \in DOMAIN Checks
    BY <1>n, <1>t, <2>1, ScriptedNames DEF Current, Working
  <2>5. Mended(Current, answer)
    <3>1. Ready(Current, host)
      BY <2>1, <2>3, ReadyAtHand DEF Working
    <3> QED
      BY <1>t, <2>4, <3>1, RepairMends
  <2>6. at' = "recheck" /\ verdict' = verdict /\ pos' = pos
    BY <2>2, <2>5 DEF Mended
  <2>7. Settled(host, host')
    BY <1>t, <2>2, <2>4, RepairKeeps DEF Keeps
  <2>8. Current' = Current
    BY <2>1, <2>6 DEF Current
  <2>o. /\ base = first /\ trusted
        /\ \A i \in DOMAIN verdict : verdict[i] # "fail"
        /\ \A s \in ran : \E j \in DOMAIN Checks : Script(Checks[j]) = s /\ j < pos
        /\ "sshd settings" \in ran => host.login = "hard" /\ host.forward = "hard"
        /\ "lockdown" \in ran => host.outgoing = "deny" /\ host.sshOut = "allowed"
        /\ \A k \in 1 .. pos - 1 :
             /\ Checks[k] = "ufw active" => host.ufw = "active"
             /\ Checks[k] = "gh token" => host.gh # "rejected"
        /\ Current = "gh token" => opt.pat = "live"
    BY <2>1, <2>3 DEF Orderly, Working
  <2>9. \A s \in ran' : \E j \in DOMAIN Checks : Script(Checks[j]) = s /\ (j < pos \/ j = pos)
    BY <2>1, <2>4, <2>o DEF Current
  <2>10. "sshd settings" \in ran' => host'.login = "hard" /\ host'.forward = "hard"
    BY <1>t, <2>1, <2>2, <2>5, <2>7, <2>o, OrderlyHost DEF Mended
  <2>11. "lockdown" \in ran' => host'.outgoing = "deny" /\ host'.sshOut = "allowed"
    BY <1>t, <2>1, <2>2, <2>5, <2>7, <2>o, OrderlyHost DEF Mended
  <2>12. \A k \in 1 .. pos - 1 :
           /\ Checks[k] = "ufw active" => host'.ufw = "active"
           /\ Checks[k] = "gh token" => host'.gh # "rejected"
    BY <1>t, <2>7, <2>o, OrderlyHost
  <2>13. AfterGrade(Current, Probe(Current, host')) # "fail"
    BY <2>2, <2>5 DEF Mended
  <2>14. \A s \in ran' : \E j \in DOMAIN Checks' :
           Script(Checks'[j]) = s /\ (j < pos' \/ (j = pos' /\ at' = "recheck"))
    BY <2>1, <2>6, <2>9
  <2>15. /\ base' = first' /\ trusted'
         /\ \A i \in DOMAIN verdict' : verdict'[i] # "fail"
         /\ \A k \in 1 .. pos' - 1 :
              /\ Checks'[k] = "ufw active" => host'.ufw = "active"
              /\ Checks'[k] = "gh token" => host'.gh # "rejected"
    BY <2>1, <2>6, <2>12, <2>o
  <2>16. /\ Current' = "gh token" => opt'.pat = "live"
         /\ (AfterGrade(Current, Probe(Current, host)) # "fail")'
    <3>1. Probe(Current, host)' = Probe(Current, host')
      BY <2>8
    <3> QED
      BY <2>1, <2>8, <2>13, <2>o, <3>1 DEF AfterGrade, Covers
  <2> QED
    BY <2>10, <2>11, <2>14, <2>15, <2>16 DEF Orderly
<1>6. CASE Recheck
  <2> SUFFICES ASSUME Smooth' PROVE Orderly'
    BY <1>6 DEF Recheck, Settling, Report
  <2>1. /\ base' = base /\ host' = host /\ first' = first /\ blocked' = blocked /\ trusted' = trusted
        /\ errors' = errors /\ opt' = opt /\ ran' = ran
        /\ routeAt' = routeAt /\ Checks' = Checks /\ at = "recheck"
    BY <1>6, <1>k DEF Recheck, settings
  <2>2. NoFault /\ Report(AfterGrade(Current, Probe(Current, host)))
    BY <1>6, <1>f DEF Recheck
  <2>3. Smooth /\ Orderly
    BY <1>0, <2>1, <2>2 DEF Smooth, Repairable, NoFault
  <2>4. pos' = pos + 1 /\ at' \in {"done", "check"}
    BY <2>2 DEF Report
  <2>o. /\ base = first /\ trusted
        /\ \A i \in DOMAIN verdict : verdict[i] # "fail"
        /\ \A s \in ran : \E j \in DOMAIN Checks : Script(Checks[j]) = s /\ (j < pos \/ j = pos)
        /\ "sshd settings" \in ran => host.login = "hard" /\ host.forward = "hard"
        /\ "lockdown" \in ran => host.outgoing = "deny" /\ host.sshOut = "allowed"
        /\ \A k \in 1 .. pos - 1 :
             /\ Checks[k] = "ufw active" => host.ufw = "active"
             /\ Checks[k] = "gh token" => host.gh # "rejected"
        /\ AfterGrade(Current, Probe(Current, host)) # "fail"
    BY <2>1, <2>3 DEF Orderly, Working
  <2>5. \A i \in DOMAIN verdict' : verdict'[i] # "fail"
    BY <1>v, <2>2, <2>o
  <2>6. \A s \in ran : \E j \in DOMAIN Checks : Script(Checks[j]) = s /\ j < pos'
    <3>1. \A j \in DOMAIN Checks : j < pos \/ j = pos => j < pos'
      BY <1>l, <1>p, <2>4
    <3> QED
      BY <2>o, <3>1
  <2>7. ASSUME NEW k \in 1 .. pos' - 1
        PROVE  /\ Checks[k] = "ufw active" => host.ufw = "active"
               /\ Checks[k] = "gh token" => host.gh # "rejected"
    <3>1. k \in 1 .. pos - 1 \/ k = pos
      BY <1>p, <2>4
    <3>2. CASE k \in 1 .. pos - 1
      BY <2>o, <3>2
    <3>3. CASE k = pos
      <4>1. Checks[k] = Current
        BY <3>3 DEF Current
      <4>2. ASSUME Current = "ufw active" PROVE host.ufw = "active"
        <5>1. Probe("ufw active", host) = {}
          BY <2>o, <4>2 DEF AfterGrade
        <5>2. host.ufw # "inactive"
          BY <5>1, ProbeValues DEF If
        <5> QED
          BY <1>t, <5>2, FacetValues, HostFacet
      <4>3. ASSUME Current = "gh token" PROVE host.gh # "rejected"
        <5>1. Probe("gh token", host) = {}
          BY <2>o, <4>3 DEF AfterGrade
        <5>2. host.gh = "stored"
          BY <5>1, ProbeValues DEF If
        <5> QED
          BY <5>2
      <4> QED
        BY <4>1, <4>2, <4>3
    <3> QED
      BY <3>1, <3>2, <3>3
  <2> QED
    BY <2>1, <2>4, <2>5, <2>6, <2>7, <2>o DEF Orderly, Working
<1>7. CASE Retry
  <2>1. PICK p \in {"right", "wrong"} : opt' = [opt EXCEPT !.password = p]
    BY <1>7 DEF Retry
  <2>2. ~opt'.fix
    BY <1>7, <1>t, <2>1 DEF Retry, Options
  <2> QED
    BY <2>2 DEF Settling, Smooth
<1>8. CASE AddRoute
  <2>1. routeAt' # 0
    BY <1>8, <1>p DEF AddRoute
  <2>2. at' = at /\ host' = host /\ first' = first /\ opt' = opt
    BY <1>8 DEF AddRoute, settings
  <2> QED
    BY <1>0, <2>1, <2>2 DEF Settling, Smooth
<1>9. CASE UNCHANGED vars
  <2>1. Checks' = Checks /\ Current' = Current
    BY <1>9, <1>k DEF vars, Current
  <2>2. Smooth' => Smooth
    BY <1>9 DEF vars, Smooth, Repairable
  <2>3. ASSUME Orderly PROVE Orderly'
    <3>1. at = "recheck" => (AfterGrade(Current, Probe(Current, host)) # "fail")'
      BY <1>9, <2>1, <2>3 DEF vars, Orderly, AfterGrade, Covers
    <3> QED
      BY <1>9, <2>1, <2>3, <3>1 DEF vars, Orderly
  <2> QED
    BY <1>0, <1>9, <2>2, <2>3 DEF vars, Settling
<1> QED
  BY <1>1, <1>2, <1>3, <1>4, <1>5, <1>6, <1>7, <1>8, <1>9 DEF Next

(***************************************************************************)
(* One run of doctor --fix that meets no gap, no fault and no route to SSH *)
(* settles a host that drifts only in what doctor can repair: the repairs  *)
(* come in an order in which each finds what it needs                      *)
(* (remote_specifications.go:92), every repair that a check wants is sent, *)
(* and none fails its second reading.                                      *)
(***************************************************************************)
THEOREM RunSettles == Spec => []OneRunSettles
<1>1. Init => WellTyped /\ Trusting /\ Settling
  BY InitTyped, InitTrusting, InitSettling
<1>2. WellTyped /\ Trusting /\ Settling /\ [Next]_vars => (WellTyped /\ Trusting /\ Settling)'
  BY TypedStep, TrustingStep, SettlingStep
<1>3. Settling => OneRunSettles
  BY DEF Settling, Smooth, Orderly, OneRunSettles, Finished
<1> QED
  BY <1>1, <1>2, <1>3, PTL DEF Spec
=============================================================================
