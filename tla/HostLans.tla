------------------------------ MODULE HostLans ------------------------------
(***************************************************************************)
(* The hosts of a preview are dealt to its routers in turn; the hosts of a  *)
(* router are grouped behind switches; every link and every switch gets a   *)
(* subnet of its own, and every interface behind a switch an address of it. *)
(***************************************************************************)
EXTENDS Naturals, Sequences, FiniteSets, FiniteSetsExt, Functions

CONSTANTS
  MaxHosts,   \* bound: hosts
  MaxLans,    \* bound: routers, and switches asked for per router
  Bounds,     \* <<least, most>> hosts of a switch a row may ask for; 0: not given
  Slots,      \* the subnets of the pools, in order
  Base,       \* the one that addresses outside of switches are taken from
  Reserved,   \* those that overlap a network reserved for hardware in the loop
  LanSize,    \* usable addresses of a subnet (254 in the code)
  Rounds,     \* rounds in which hosts are dealt to switches (8 in the code)
  Tries,      \* subnets drawn for one link or switch (1024 in the code)
  Star        \* stands for the missing router of a preview without routers

ASSUME HostLanBounds ==
  /\ MaxHosts \in Nat /\ MaxLans \in Nat
  /\ Bounds \subseteq Nat \X Nat
  /\ Slots \subseteq Nat /\ Reserved \subseteq Slots /\ Base \in Slots
  /\ LanSize \in Nat \ {0} /\ Rounds \in Nat \ {0} /\ Tries \in Nat \ {0}
ASSUME StarIsNoRouter == Star \notin Nat

VARIABLES
  lan,       \* what is done next
  routersN,  \* number of routers
  hostsN,    \* number of hosts
  policy,    \* mode and target of the switches of a router
  bounds,    \* bounds[r]: what the row of router r asks for
  router,    \* the router whose hosts are grouped
  uncut,     \* its hosts that are not in a group yet
  groups,    \* the groups of its hosts
  taken,     \* subnets handed out
  tries,     \* subnets drawn in vain for the current link or switch
  fell,      \* fallback subnets looked at; 0: none
  spans,     \* subnets of the links
  switches,  \* switches, [router, hosts, subnet]
  ip,        \* ip[x]: address of a router or a host, [subnet, number]
  pooled,    \* number of the last address that was taken from Base
  turn       \* switch and host that are numbered next

lanVars == <<lan, routersN, hostsN, policy, bounds, router, uncut, groups, taken,
             tries, fell, spans, switches, ip, pooled, turn>>

Given == <<routersN, hostsN, policy, bounds>>
Drawing == <<taken, tries, fell, spans, switches>>
Addresses == <<ip, pooled, turn>>

LanModes == {"exact", "nonuniform", "ratio"}

LanRouters == 1 .. routersN
LanHosts == 1 .. hostsN

Router(r) == [kind |-> "router", id |-> r]
Host(h) == [kind |-> "host", id |-> h]
Address(s, k) == [subnet |-> s, number |-> k]

\* The hosts of a router: every routersN-th one, from the r-th on; all of them if
\* there is no router.
HostsOf(r) ==
  IF routersN = 0 THEN [h \in LanHosts |-> h]
  ELSE [k \in 1 .. (hostsN + routersN - r) \div routersN |-> r + (k - 1) * routersN]

Ceiling(a, b) == (a + b - 1) \div b

\* Numbers of groups that the bounds of a router allow.
GroupRange(r) ==
  LET n == Len(HostsOf(r))
      lo == IF bounds[r][1] > 0 THEN bounds[r][1] ELSE 2
      hi == IF bounds[r][2] > 0 THEN Max({lo, bounds[r][2]}) ELSE n
      least == Max({1, Ceiling(n, hi)})
      most == IF lo > n THEN 1 ELSE n \div lo
  IN least .. Max({least, most})

Choosers == {r \in LanRouters : Len(HostsOf(r)) >= 2}

\* Routers with fewer choices first, then those with more hosts, then in order.
Sooner(q, r) ==
  LET a == Cardinality(GroupRange(q)) b == Cardinality(GroupRange(r))
      m == Len(HostsOf(q)) n == Len(HostsOf(r)) IN
  a < b \/ (a = b /\ (m > n \/ (m = n /\ q < r)))

\* A bug: a router does not mind what the others have taken.
TargetsLeast == [r \in Choosers |-> Min(GroupRange(r))]

\* Each takes the least number no router before it has taken, or else its least.
Targets ==
  LET Target[r \in Choosers] ==
        LET free == GroupRange(r) \ {Target[q] : q \in {p \in Choosers : Sooner(p, r)}}
        IN Min(IF free = {} THEN GroupRange(r) ELSE free)
  IN Target

\* The groups that have hosts (a recursive function: nothing can be proved of SelectSeq).
Filled(gs) ==
  LET F[i \in 0 .. Len(gs)] ==
        IF i = 0 THEN <<>> ELSE IF gs[i] = <<>> THEN F[i - 1] ELSE Append(F[i - 1], gs[i])
  IN F[Len(gs)]

\* A bug: what is left once every group has what it needs goes to the last group.
DistributeLast(hs, k, b) ==
  LET lo == IF b[1] > 0 THEN Min({b[1], Len(hs) \div k}) ELSE Min({1, Len(hs) \div k})
  IN Filled([i \in 1 .. k |-> SubSeq(hs, (i - 1) * lo + 1, IF i = k THEN Len(hs) ELSE i * lo)])

\* Hosts are dealt to groups: first what every group needs, as far as there are
\* enough, then one to each that is not full in turn, in a limited number of
\* rounds, and what remains to the last one.
Distribute(hs, k, b) ==
  LET n == Len(hs)
      wanted == IF b[1] > 0 THEN b[1] ELSE 1
      hi == IF b[2] > 0 THEN Max({wanted, b[2]}) ELSE n
      lo == IF n >= k * wanted THEN wanted ELSE IF n >= k THEN 1 ELSE 0
      Seed == [i \in 1 .. k |-> SubSeq(hs, (i - 1) * lo + 1, i * lo)]
      Dealt[t \in 0 .. Rounds * k] ==
        IF t = 0 THEN [groups |-> Seed, rest |-> SubSeq(hs, k * lo + 1, n)]
        ELSE LET d == Dealt[t - 1]
                 i == 1 + ((t - 1) % k) IN
             IF d.rest = <<>> \/ Len(d.groups[i]) >= hi THEN d
             ELSE [groups |-> [d.groups EXCEPT ![i] = Append(@, Head(d.rest))],
                   rest |-> Tail(d.rest)]
      last == Dealt[Rounds * k]
  IN Filled([last.groups EXCEPT ![k] = @ \o last.rest])

LanInit ==
  /\ lan = "links"
  /\ routersN \in 0 .. MaxLans
  /\ hostsN \in 0 .. MaxHosts
  /\ policy \in [mode : {"exact"}, target : 1 .. MaxLans] \cup [mode : LanModes \ {"exact"}, target : {0}]
  /\ bounds \in [LanRouters -> Bounds]
  /\ router = 1
  /\ uncut = <<>> /\ groups = <<>>
  /\ taken = {} /\ tries = 0 /\ fell = 0
  /\ spans = <<>> /\ switches = <<>>
  /\ ip = [x \in {Router(r) : r \in LanRouters} |-> Address(Base, x.id)]
  /\ pooled = routersN
  /\ turn = <<1, 1>>

-----------------------------------------------------------------------------
(* Subnets: any one that has not been handed out may be drawn. *)

\* Bugs: a subnet may be drawn twice; the number of draws is not limited.
DrawAgain(s) ==
  /\ s \in Slots
  /\ tries < Tries
  /\ taken' = taken \cup {s}

DrawForever(s) ==
  /\ s \in Slots \ taken
  /\ taken' = taken \cup {s}

Draw(s) ==
  /\ s \in Slots \ taken
  /\ tries < Tries
  /\ taken' = taken \cup {s}

\* One that overlaps a reserved network is not handed out again either.
DrawInVain ==
  /\ \/ lan = "links" /\ Len(spans) + 1 < routersN
     \/ lan = "lans" /\ groups # <<>>
  /\ \E s \in Reserved : Draw(s)
  /\ tries' = tries + 1
  /\ UNCHANGED <<Given, Addresses, lan, router, uncut, groups, fell, spans, switches>>

\* A link of the chain of routers.
DrawLink ==
  /\ lan = "links" /\ Len(spans) + 1 < routersN
  /\ \E s \in Slots \ Reserved : Draw(s) /\ spans' = Append(spans, s)
  /\ tries' = 0
  /\ UNCHANGED <<Given, Addresses, lan, router, uncut, groups, fell, switches>>

NoSubnet == tries = Tries \/ Slots \subseteq taken

\* If none can be drawn a link takes the next fallback subnet that is not reserved,
\* handed out or not.
FallbackLink ==
  /\ lan = "links" /\ Len(spans) + 1 < routersN
  /\ NoSubnet
  /\ LET next == {s \in Slots \ Reserved : s >= fell} IN
     IF next = {} THEN lan' = "failed" /\ UNCHANGED <<fell, spans>>
     ELSE /\ spans' = Append(spans, Min(next))
          /\ fell' = Min(next) + 1
          /\ UNCHANGED lan
  /\ tries' = 0
  /\ UNCHANGED <<Given, Addresses, router, uncut, groups, taken, switches>>

LinksDone ==
  /\ lan = "links" /\ Len(spans) + 1 >= routersN
  /\ lan' = "group"
  /\ UNCHANGED <<Given, Drawing, Addresses, router, uncut, groups>>

-----------------------------------------------------------------------------
(* Groups. *)

\* The routers are done in turn; a preview without routers is one star.
LastRouter == Max({1, routersN})

Single(r) == routersN = 0 \/ (policy.mode = "exact" /\ policy.target = 1) \/ Len(HostsOf(r)) < 2

\* All hosts behind one switch.
GroupAll ==
  /\ lan = "group" /\ router <= LastRouter /\ Single(router)
  /\ groups' = (IF HostsOf(router) = <<>> THEN <<>> ELSE <<HostsOf(router)>>)
  /\ lan' = "lans"
  /\ UNCHANGED <<Given, Drawing, Addresses, router, uncut>>

GroupExactly ==
  /\ lan = "group" /\ router <= LastRouter /\ ~Single(router)
  /\ policy.mode \in {"exact", "nonuniform"}
  /\ groups' = Distribute(HostsOf(router),
                 IF policy.mode = "exact" THEN policy.target ELSE Targets[router], bounds[router])
  /\ lan' = "lans"
  /\ UNCHANGED <<Given, Drawing, Addresses, router, uncut>>

BeginCuts ==
  /\ lan = "group" /\ router <= LastRouter /\ ~Single(router)
  /\ policy.mode = "ratio"
  /\ uncut' = HostsOf(router)
  /\ groups' = <<>>
  /\ lan' = "cut"
  /\ UNCHANGED <<Given, Drawing, Addresses, router>>

\* Sizes a group may have: 2 to 4 unless the row says something else.
CutMost(b) == IF b[2] > 0 /\ b[2] >= b[1] THEN b[2] ELSE 4
CutLeast(b) == Min({CutMost(b), IF b[1] > 0 THEN b[1] ELSE 2})

\* Bugs: what is too little for a group is lost; or is a group of its own.
CutLosesRest ==
  /\ lan = "cut" /\ uncut # <<>>
  /\ LET lo == CutLeast(bounds[router])
         hi == CutMost(bounds[router])
         n == Len(uncut) IN
     \/ /\ n \in lo .. hi
        /\ groups' = Append(groups, uncut) /\ uncut' = <<>>
     \/ /\ n < lo
        /\ uncut' = <<>> /\ UNCHANGED groups
     \/ /\ n > hi
        /\ \E size \in lo .. hi :
             /\ groups' = Append(groups, SubSeq(uncut, 1, size))
             /\ uncut' = SubSeq(uncut, size + 1, n)
  /\ UNCHANGED <<Given, Drawing, Addresses, lan, router>>

CutKeepsRest ==
  /\ lan = "cut" /\ uncut # <<>>
  /\ LET lo == CutLeast(bounds[router])
         hi == CutMost(bounds[router])
         n == Len(uncut) IN
     \/ /\ n <= hi
        /\ groups' = Append(groups, uncut) /\ uncut' = <<>>
     \/ /\ n > hi
        /\ \E size \in lo .. hi :
             /\ groups' = Append(groups, SubSeq(uncut, 1, size))
             /\ uncut' = SubSeq(uncut, size + 1, n)
  /\ UNCHANGED <<Given, Drawing, Addresses, lan, router>>

\* A group of a random size is cut off; what fits in one group is the last one,
\* and what is too little for one joins the one before.
Cut ==
  /\ lan = "cut" /\ uncut # <<>>
  /\ LET lo == CutLeast(bounds[router])
         hi == CutMost(bounds[router])
         n == Len(uncut) IN
     \/ /\ n \in lo .. hi
        /\ groups' = Append(groups, uncut) /\ uncut' = <<>>
     \/ /\ n < lo
        /\ groups' = (IF groups = <<>> THEN <<uncut>>
                      ELSE [groups EXCEPT ![Len(groups)] = @ \o uncut])
        /\ uncut' = <<>>
     \/ /\ n > hi
        /\ \E size \in lo .. hi :
             /\ groups' = Append(groups, SubSeq(uncut, 1, size))
             /\ uncut' = SubSeq(uncut, size + 1, n)
  /\ UNCHANGED <<Given, Drawing, Addresses, lan, router>>

CutsDone ==
  /\ lan = "cut" /\ uncut = <<>>
  /\ lan' = "lans"
  /\ UNCHANGED <<Given, Drawing, Addresses, router, uncut, groups>>

\* Each group gets a switch and a subnet.
DrawLan ==
  /\ lan = "lans" /\ groups # <<>>
  /\ \E s \in Slots \ Reserved :
       /\ Draw(s)
       /\ switches' = Append(switches,
            [router |-> IF routersN = 0 THEN Star ELSE router, hosts |-> Head(groups), subnet |-> s])
  /\ groups' = Tail(groups)
  /\ tries' = 0
  /\ UNCHANGED <<Given, Addresses, lan, router, uncut, fell, spans>>

\* Without one the preview fails; a star takes the first that is not reserved.
NoLan ==
  /\ lan = "lans" /\ groups # <<>>
  /\ NoSubnet
  /\ IF routersN > 0 THEN lan' = "failed" /\ UNCHANGED <<switches, groups>>
     ELSE /\ switches' = <<[router |-> Star, hosts |-> Head(groups),
                            subnet |-> Min(IF Slots = Reserved THEN Slots ELSE Slots \ Reserved)]>>
          /\ groups' = <<>>
          /\ UNCHANGED lan
  /\ tries' = 0
  /\ UNCHANGED <<Given, Addresses, router, uncut, taken, fell, spans>>

NextRouter ==
  /\ lan = "lans" /\ groups = <<>>
  /\ router' = router + 1
  /\ lan' = IF router < LastRouter THEN "group" ELSE "number"
  /\ UNCHANGED <<Given, Drawing, Addresses, uncut, groups>>

-----------------------------------------------------------------------------
(* Addresses. *)

Numbered == switches[turn[1]]

\* A bug: hosts are numbered from the router's address on.
NumberOfFromFirst(i) == i

\* The first two addresses are kept for the router and the switch, or fewer if the
\* hosts need them; behind the only switch of a router just the first one is.
NumberOf(i) ==
  LET n == Len(Numbered.hosts)
      kept == IF n + 2 <= LanSize THEN 2 ELSE IF n + 1 <= LanSize THEN 1 ELSE 0 IN
  IF routersN > 0 /\ policy.mode = "exact" /\ policy.target = 1 /\ i < LanSize THEN 1 + i ELSE kept + i

\* The next address of Base that nobody has.
NextPooled ==
  Min({k \in pooled + 1 .. pooled + hostsN + routersN + 1 : Address(Base, k) \notin Range(ip)})

Renumber(x, a) == ip' = [y \in DOMAIN ip \cup {x} |-> IF y = x THEN a ELSE ip[y]]

\* A host gets the next address behind its switch; if there is none, one of Base.
NumberHost ==
  /\ lan = "number" /\ turn[1] <= Len(switches)
  /\ turn[2] <= Len(Numbered.hosts)
  /\ LET h == Host(Numbered.hosts[turn[2]])
         k == NumberOf(turn[2]) IN
     IF k <= LanSize
     THEN Renumber(h, Address(Numbered.subnet, k)) /\ UNCHANGED pooled
     ELSE Renumber(h, Address(Base, NextPooled)) /\ pooled' = NextPooled
  /\ turn' = [turn EXCEPT ![2] = @ + 1]
  /\ UNCHANGED <<Given, Drawing, lan, router, uncut, groups>>

\* A router gets the first address behind its switch, the last switch's if it has several.
NumberRouter ==
  /\ lan = "number" /\ turn[1] <= Len(switches)
  /\ turn[2] > Len(Numbered.hosts)
  /\ IF Numbered.router = Star THEN UNCHANGED ip
     ELSE Renumber(Router(Numbered.router), Address(Numbered.subnet, 1))
  /\ turn' = <<turn[1] + 1, 1>>
  /\ UNCHANGED <<Given, Drawing, lan, router, uncut, groups, pooled>>

NumbersDone ==
  /\ lan = "number" /\ turn[1] > Len(switches)
  /\ lan' = "end"
  /\ UNCHANGED <<Given, Drawing, Addresses, router, uncut, groups>>

LanNext ==
  \/ DrawInVain \/ DrawLink \/ FallbackLink \/ LinksDone
  \/ GroupAll \/ GroupExactly \/ BeginCuts \/ Cut \/ CutsDone
  \/ DrawLan \/ NoLan \/ NextRouter
  \/ NumberHost \/ NumberRouter \/ NumbersDone
  \/ lan \in {"end", "failed"} /\ UNCHANGED lanVars

LanSpec == LanInit /\ [][LanNext]_lanVars

-----------------------------------------------------------------------------
(* Properties. *)

LanTypeOK ==
  /\ lan \in {"links", "group", "cut", "lans", "number", "end", "failed"}
  /\ router \in 1 .. LastRouter + 1
  /\ taken \subseteq Slots /\ tries \in 0 .. Tries
  /\ \A w \in Range(switches) : w.hosts \in Seq(LanHosts) /\ w.subnet \in Slots /\ w.router \in LanRouters \cup {Star}
  /\ \A x \in DOMAIN ip : ip[x].subnet \in Slots

Grouped == lan \in {"number", "end"}

\* Every host is behind one switch, of the router it was dealt to.
HostsGroupedOnce ==
  Grouped => \A h \in LanHosts :
    LET behind == {w \in DOMAIN switches : h \in Range(switches[w].hosts)} IN
    /\ Cardinality(behind) = 1
    /\ \A w \in behind :
         /\ routersN > 0 => h \in Range(HostsOf(switches[w].router))
         /\ Cardinality(Range(switches[w].hosts)) = Len(switches[w].hosts)

SizesOf(r) == {Len(w.hosts) : w \in {v \in Range(switches) : v.router = r}}
SwitchesOf(r) == Cardinality({w \in DOMAIN switches : switches[w].router = r})

\* A router that is asked for so many switches has them if it has as many hosts, the
\* bounds of its row are kept if its hosts can be dealt within them in the rounds
\* there are, and without an upper bound the switches are even, if the rounds are
\* enough from the lower bound on, or from one host if that bound is given up.
ExactlyAsAsked ==
  Grouped /\ policy.mode = "exact" /\ policy.target > 1 => \A r \in LanRouters :
    LET n == Len(HostsOf(r)) k == policy.target lo == bounds[r][1] hi == bounds[r][2]
        kept == k * Max({1, lo}) <= n IN
    /\ SwitchesOf(r) = Min({n, k})
    /\ lo <= hi /\ kept /\ n <= k * hi /\ n <= k * (Max({1, lo}) + Rounds) => SizesOf(r) \subseteq lo .. hi
    /\ hi = 0 /\ n <= k * ((IF kept THEN Max({1, lo}) ELSE 1) + Rounds) => \A a, b \in SizesOf(r) : a <= b + 1

\* Groups of random sizes are within the bounds, except that the last one may have
\* what is too little for another one, and that there may be too few hosts for one.
SizesWithinBounds ==
  Grouped /\ policy.mode = "ratio" => \A r \in LanRouters : \A a \in SizesOf(r) :
    /\ a < CutMost(bounds[r]) + CutLeast(bounds[r]) \/ a = 1
    /\ a >= Min({CutLeast(bounds[r]), Len(HostsOf(r))})

\* In mode "nonuniform" no two routers have as many switches as each other, as long as
\* rows give no upper bound and their hosts can be grouped so.
NumbersDiffer ==
  Grouped /\ policy.mode = "nonuniform" /\ (\A r \in LanRouters : bounds[r][2] = 0)
    /\ (\E f \in [Choosers -> LanHosts] : IsInjective(f) /\ \A r \in Choosers : f[r] \in GroupRange(r))
  => \A q, r \in Choosers : q # r => SwitchesOf(q) # SwitchesOf(r)

\* Links and switches have subnets of their own, unless the pools are used up.
SubnetsDistinct ==
  fell = 0 =>
    /\ Cardinality(Range(spans)) = Len(spans)
    /\ \A v, w \in DOMAIN switches : v # w => switches[v].subnet # switches[w].subnet
    /\ \A w \in Range(switches) : w.subnet \notin Range(spans)

\* No two hosts or routers have the same address, if every group leaves an address
\* for the router, and no router without a switch keeps an address of a subnet
\* that a switch has got.
NodesDistinct ==
  /\ lan = "end"
  /\ \A w \in Range(switches) : Len(w.hosts) < LanSize
  /\ \A w \in Range(switches) : w.subnet = Base => \A r \in LanRouters : HostsOf(r) # <<>>
  => \A x, y \in DOMAIN ip : x # y => ip[x] # ip[y]

\* Whatever mode groups the hosts: each is behind one switch, and the numbers and sizes
\* of the groups are what the rows ask for.
HostsAsAsked == HostsGroupedOnce /\ ExactlyAsAsked /\ SizesWithinBounds /\ NumbersDiffer

\* No two links or switches share a subnet, and no two nodes an address.
AddressesDistinct == SubnetsDistinct /\ NodesDistinct
=============================================================================
