------------------------ MODULE ConfigurationProofs ------------------------
(***************************************************************************)
(* Proofs about Configuration: what is started has everything to itself,   *)
(* what is refused does not, and rows that nobody has typed in keep out of *)
(* each other's way.                                                       *)
(***************************************************************************)
EXTENDS Configuration, FiniteSetTheorems, WellFoundedInduction, TLAPS

----------------------------------------------------------------------------
(* find_problems()                                                         *)

ChannelTypes == {"serial", "can"} \union ProbeKinds

\* A channel that the rows or the command line can give: only an ST-LINK has an access
\* port.
IsChannel(c) == /\ c.type \in ChannelTypes
                /\ c.type \in ProbeKinds \ {"stlink"} => c.ap = {}

\* Without conflicts no resource is claimed twice.
LEMMA NoConflict ==
  ASSUME NEW cfg, FindConflicts(cfg) = {},
         NEW i \in DOMAIN cfg, NEW j \in DOMAIN cfg,
         NEW a \in Claims(cfg[i]), NEW b \in Claims(cfg[j]), a[2] = b[2]
  PROVE  i = j /\ a = b
<1> DEFINE claims == UNION {{k} \X Claims(cfg[k]) : k \in DOMAIN cfg}
<1>1. <<i, a>> \in claims /\ <<j, b>> \in claims
  OBVIOUS
<1>2. <<i, a>>[2][2] = a[2] /\ <<j, b>>[2][2] = b[2]
  OBVIOUS
<1>3. \A x, y \in claims : x[2][2] = y[2][2] => x = y
  BY DEF FindConflicts
<1>4. <<i, a>> = <<j, b>>
  BY <1>1, <1>2, <1>3
<1> QED BY <1>4

\* Every socket and every device a server opens has been claimed.
LEMMA SocketsClaimed ==
  ASSUME NEW c, c.type \in ChannelTypes, NEW s \in Sockets(c)
  PROVE  s = <<s[1], s[2]>> /\ <<s[1], <<"tcp", s[2]>>>> \in Claims(c)
<1>1. CASE c.type \in {"serial", "can"}
  BY <1>1 DEF Sockets, JlinkSockets, StlinkSockets, OpenocdSockets, Claims, Ports
<1>2. CASE c.type \in ProbeKinds
  BY <1>2 DEF Sockets, JlinkSockets, StlinkSockets, OpenocdSockets, Claims, Ports, ProbeKinds
<1> QED BY <1>1, <1>2 DEF ChannelTypes

LEMMA HardwareClaimed ==
  ASSUME NEW c, c.type \in ChannelTypes, NEW h \in Hardware(c)
  PROVE  \E role : <<role, h>> \in Claims(c)
<1>1. CASE c.type = "serial"
  BY <1>1 DEF Hardware, Claims, SerialDevices
<1>2. CASE c.type = "can" /\ c.interface = "slcan"
  BY <1>2 DEF Hardware, Claims, SerialDevices, SerialInterfaces
<1>3. CASE c.type = "can" /\ c.interface # "slcan"
  BY <1>3 DEF Hardware, Claims, CanChannels
<1>4. CASE c.type \in ProbeKinds
  BY <1>4 DEF Hardware, ProbeKinds
<1> QED BY <1>1, <1>2, <1>3, <1>4 DEF ChannelTypes

\* A configuration without problems gives every channel its own of everything.
LEMMA NoProblemsSound ==
  ASSUME NEW cfg, \A i \in DOMAIN cfg : cfg[i].type \in ChannelTypes, ~HasProblems(cfg)
  PROVE  Sound(cfg)
<1>1. FindConflicts(cfg) = {} /\ \A i \in DOMAIN cfg : Valid(cfg[i])
  BY DEF HasProblems, FindInvalidValues
<1>2. ASSUME NEW i \in DOMAIN cfg
      PROVE  /\ \A n \in cfg[i].rate : n > 0
             /\ \A s \in Sockets(cfg[i]) : s[2] \in 1 .. MaxTcpPort
             /\ cfg[i].type = "stlink" => StlinkBuilds(cfg[i])
  BY <1>1, <1>2 DEF Valid, Sockets, JlinkSockets, StlinkSockets, OpenocdSockets, StlinkBuilds,
                    ChannelTypes, ProbeKinds
<1>3. ASSUME NEW i \in DOMAIN cfg, NEW j \in DOMAIN cfg,
             NEW s \in Sockets(cfg[i]), NEW t \in Sockets(cfg[j]), s[2] = t[2]
      PROVE  i = j /\ s = t
  <2>1. /\ s = <<s[1], s[2]>> /\ <<s[1], <<"tcp", s[2]>>>> \in Claims(cfg[i])
        /\ t = <<t[1], t[2]>> /\ <<t[1], <<"tcp", t[2]>>>> \in Claims(cfg[j])
    BY SocketsClaimed
  <2>2. i = j /\ <<s[1], <<"tcp", s[2]>>>> = <<t[1], <<"tcp", t[2]>>>>
    BY <1>1, <1>3, <2>1, NoConflict
  <2> QED BY <2>1, <2>2, <1>3
<1>4. ASSUME NEW i \in DOMAIN cfg, NEW j \in DOMAIN cfg, NEW h \in Hardware(cfg[i]),
             h \in Hardware(cfg[j])
      PROVE  i = j
  <2>1. PICK a : <<a, h>> \in Claims(cfg[i])
    BY HardwareClaimed
  <2>2. PICK b : <<b, h>> \in Claims(cfg[j])
    BY HardwareClaimed, <1>4
  <2> QED BY <1>1, <2>1, <2>2, NoConflict
<1> QED BY <1>2, <1>3, <1>4 DEF Sound

\* What is claimed will be used, as the claim says, if an ST-LINK has the one port its
\* server takes.
LEMMA ClaimsUsed ==
  ASSUME NEW c, c.type \in ChannelTypes, c.type = "stlink" => c.telnet = {} /\ c.rtt = {},
         NEW a \in Claims(c)
  PROVE  /\ a = <<a[1], a[2]>>
         /\ a[2][1] \in {"tcp", "serial", "can"}
         /\ a[2][1] = "tcp" => <<a[1], a[2][2]>> \in Sockets(c)
         /\ a[2][1] = "serial" => a[1] = "device" /\ a[2] \in Hardware(c)
         /\ a[2][1] = "can" =>
              a[1] = "channel" /\ IF a[2][2][1] = "slcan"
                                  THEN <<"serial", a[2][2][2]>> \in Hardware(c)
                                  ELSE a[2] \in Hardware(c)
<1>1. CASE c.type = "serial"
  BY <1>1 DEF Claims, Ports, SerialDevices, Sockets, Hardware
<1>2. CASE c.type = "can"
  <2>1. CASE a \in Ports("server", c.tcp)
    BY <1>2, <2>1 DEF Ports, Sockets
  <2>2. CASE a \in CanChannels(c.interface, c.channel)
    <3>1. PICK ch \in c.channel : a = <<"channel", <<"can", <<c.interface, ch>>>>>>
      BY <2>2 DEF CanChannels
    <3>2. IF c.interface = "slcan" THEN <<"serial", ch>> \in Hardware(c)
                                   ELSE <<"can", <<c.interface, ch>>>> \in Hardware(c)
      BY <1>2 DEF Hardware
    <3> QED BY <3>1, <3>2
  <2>3. CASE c.interface = "slcan" /\ a \in SerialDevices(c.channel)
    BY <1>2, <2>3 DEF SerialDevices, Hardware
  <2> QED BY <1>2, <2>1, <2>2, <2>3 DEF Claims, SerialInterfaces
<1>3. CASE c.type \in ProbeKinds
  <2>1. a \in Ports("gdb", ResolvedGdbPort(c)) \union Ports("telnet", ResolvedTelnetPort(c))
                  \union Ports("rtt", c.rtt)
    BY <1>3 DEF Claims, ProbeKinds
  <2>2. c.type = "stlink" => ResolvedTelnetPort(c) = {} /\ c.rtt = {}
    BY DEF ResolvedTelnetPort, Default, DefaultPorts
  <2> QED BY <1>3, <2>1, <2>2
          DEF Ports, Sockets, JlinkSockets, StlinkSockets, OpenocdSockets, ProbeKinds
<1> QED BY <1>1, <1>2, <1>3 DEF ChannelTypes

\* Two claims on one resource are two of its users.
LEMMA ConflictUnsound ==
  ASSUME NEW cfg, \A k \in DOMAIN cfg : IsChannel(cfg[k]),
         \A k \in DOMAIN cfg : cfg[k].type = "stlink" => cfg[k].telnet = {},
         FindConflicts(cfg) # {}, Sound(cfg)
  PROVE  FALSE
<1> DEFINE claims == UNION {{k} \X Claims(cfg[k]) : k \in DOMAIN cfg}
<1>1. PICK x \in claims : \E y \in claims : y # x /\ y[2][2] = x[2][2]
  BY DEF FindConflicts
<1>2. PICK y \in claims : y # x /\ y[2][2] = x[2][2]
  BY <1>1
<1>3. PICK i \in DOMAIN cfg : \E a \in Claims(cfg[i]) : x = <<i, a>>
  OBVIOUS
<1>4. PICK a \in Claims(cfg[i]) : x = <<i, a>>
  BY <1>3
<1>5. PICK j \in DOMAIN cfg : \E b \in Claims(cfg[j]) : y = <<j, b>>
  OBVIOUS
<1>6. PICK b \in Claims(cfg[j]) : y = <<j, b>>
  BY <1>5
<1>7. a[2] = b[2] /\ (i = j => a # b)
  BY <1>2, <1>4, <1>6
<1>8. ASSUME NEW k \in DOMAIN cfg
      PROVE  /\ cfg[k].type \in ChannelTypes
             /\ cfg[k].type = "stlink" => cfg[k].telnet = {} /\ cfg[k].rtt = {}
  BY DEF Sound, StlinkBuilds, IsChannel
<1> HIDE DEF claims
<1>9. /\ a = <<a[1], a[2]>>
      /\ a[2][1] \in {"tcp", "serial", "can"}
      /\ a[2][1] = "tcp" => <<a[1], a[2][2]>> \in Sockets(cfg[i])
      /\ a[2][1] = "serial" => a[1] = "device" /\ a[2] \in Hardware(cfg[i])
      /\ a[2][1] = "can" =>
           a[1] = "channel" /\ IF a[2][2][1] = "slcan"
                               THEN <<"serial", a[2][2][2]>> \in Hardware(cfg[i])
                               ELSE a[2] \in Hardware(cfg[i])
  BY <1>8, ClaimsUsed, Zenon
<1>10. /\ b = <<b[1], b[2]>>
       /\ b[2][1] = "tcp" => <<b[1], b[2][2]>> \in Sockets(cfg[j])
       /\ b[2][1] = "serial" => b[1] = "device" /\ b[2] \in Hardware(cfg[j])
       /\ b[2][1] = "can" =>
            b[1] = "channel" /\ IF b[2][2][1] = "slcan"
                                THEN <<"serial", b[2][2][2]>> \in Hardware(cfg[j])
                                ELSE b[2] \in Hardware(cfg[j])
  BY <1>8, ClaimsUsed, Zenon
<1>11. /\ \A s \in Sockets(cfg[i]), t \in Sockets(cfg[j]) : s[2] = t[2] => i = j /\ s = t
       /\ i # j => Hardware(cfg[i]) \intersect Hardware(cfg[j]) = {}
  BY DEF Sound
<1>12. CASE a[2][1] = "tcp"
  <2>1. <<a[1], a[2][2]>>[2] = <<b[1], a[2][2]>>[2]
    OBVIOUS
  <2>2. i = j /\ <<a[1], a[2][2]>> = <<b[1], a[2][2]>>
    BY <1>7, <1>9, <1>10, <1>11, <1>12, <2>1
  <2> QED BY <1>7, <1>9, <1>10, <2>2
<1>13. CASE a[2][1] = "serial"
  BY <1>7, <1>9, <1>10, <1>11, <1>13
<1>14. CASE a[2][1] = "can"
  BY <1>7, <1>9, <1>10, <1>11, <1>14
<1> QED BY <1>9, <1>12, <1>13, <1>14

\* Nothing is a problem but what keeps the channels from running together, and the telnet
\* port of an ST-LINK.
LEMMA ProblemsUnsound ==
  ASSUME NEW cfg, \A i \in DOMAIN cfg : IsChannel(cfg[i]), HasProblems(cfg),
         \A i \in DOMAIN cfg : cfg[i].type = "stlink" => cfg[i].telnet = {}
  PROVE  ~Sound(cfg)
<1> SUFFICES ASSUME Sound(cfg) PROVE FALSE
  OBVIOUS
<1>1. FindConflicts(cfg) = {}
  BY ConflictUnsound
<1>2. PICK i \in DOMAIN cfg : ~Valid(cfg[i])
  BY <1>1 DEF HasProblems, FindInvalidValues
<1> DEFINE c == cfg[i]
<1>3. /\ \A n \in c.rate : n > 0
      /\ \A s \in Sockets(c) : s[2] \in 1 .. MaxTcpPort
      /\ c.type = "stlink" => StlinkBuilds(c) /\ c.telnet = {}
      /\ IsChannel(c)
  BY DEF Sound
<1> HIDE DEF c
<1>4. CASE c.type \in {"serial", "can"}
  <2>1. \A p \in c.tcp : <<"server", p>> \in Sockets(c)
    BY <1>4 DEF Sockets
  <2>2. c.tcp \subseteq 1 .. MaxTcpPort
    BY <1>3, <2>1
  <2> QED BY <1>2, <1>3, <1>4, <2>2 DEF Valid, c
<1>5. CASE c.type \in ProbeKinds
  <2>1. c.type = "stlink" => ResolvedTelnetPort(c) = {} /\ c.rtt = {}
    BY <1>3 DEF ResolvedTelnetPort, Default, DefaultPorts, StlinkBuilds
  <2>2. /\ \A p \in ResolvedGdbPort(c) : <<"gdb", p>> \in Sockets(c)
        /\ \A p \in ResolvedTelnetPort(c) : <<"telnet", p>> \in Sockets(c)
        /\ \A p \in c.rtt : <<"rtt", p>> \in Sockets(c)
    BY <1>5, <2>1 DEF Sockets, JlinkSockets, StlinkSockets, OpenocdSockets, ProbeKinds
  <2>3. ResolvedGdbPort(c) \union ResolvedTelnetPort(c) \union c.rtt \subseteq 1 .. MaxTcpPort
    BY <1>3, <2>2
  <2>4. c.ap \subseteq 0 .. MaxAccessPort
    BY <1>3, <1>5 DEF IsChannel, StlinkBuilds
  <2>5. c.type \notin {"serial", "can"}
    BY <1>5 DEF ProbeKinds
  <2> QED BY <1>2, <1>3, <2>1, <2>3, <2>4, <2>5 DEF Valid, c
<1> QED BY <1>3, <1>4, <1>5 DEF IsChannel, ChannelTypes

\* find_problems() objects to a configuration exactly if its channels cannot run
\* together, an ST-LINK's telnet port aside.
THEOREM FindProblemsExact ==
  ASSUME NEW cfg, \A i \in DOMAIN cfg : IsChannel(cfg[i]),
         \A i \in DOMAIN cfg : cfg[i].type = "stlink" => cfg[i].telnet = {}
  PROVE  HasProblems(cfg) <=> ~Sound(cfg)
BY NoProblemsSound, ProblemsUnsound DEF IsChannel

----------------------------------------------------------------------------
(* next_free_port()                                                        *)

\* A set of natural numbers that is not empty has a least element.
LEMMA Least ==
  ASSUME NEW S \in SUBSET Nat, S # {}
  PROVE  \E k \in S : \A j \in S : k <= j
<1>1. PICK k \in S : \A j \in S : ~(<<j, k>> \in OpToRel(<, Nat))
  BY NatLessThanWellFounded, WFMin
<1>2. \A j \in S : ~(j < k)
  BY <1>1 DEF OpToRel
<1> QED BY <1>2

\* It ends: of Cardinality(used) + 1 ports one is not used.  And it returns the first such
\* port.
THEOREM NextPortIsFree ==
  ASSUME NEW start \in Nat, NEW used, IsFiniteSet(used), NEW step \in {1, 10}
  PROVE  /\ NextFreePort(start, used, step) \in Nat
         /\ NextFreePort(start, used, step) >= start
         /\ NextFreePort(start, used, step) \notin used
         /\ step = 10 => NextFreePort(start, used, step) % 10 = start % 10
         /\ \A k \in Nat : start + k * step < NextFreePort(start, used, step)
                             => start + k * step \in used
<1> DEFINE n == Cardinality(used)
           port(k) == start + k * step
           free == {k \in 0 .. n : port(k) \notin used}
<1>1. n \in Nat
  BY FS_CardinalityType
<1>2. free # {}
  <2> SUFFICES ASSUME free = {} PROVE FALSE
    OBVIOUS
  <2> DEFINE f == [k \in 0 .. n |-> port(k)]
  <2>1. f \in [0 .. n -> used]
    OBVIOUS
  <2>2. IsFiniteSet(0 .. n) /\ Cardinality(0 .. n) = n + 1
    BY <1>1, FS_Interval
  <2>3. Cardinality(used) < Cardinality(0 .. n)
    BY <1>1, <2>2
  <2> HIDE DEF f
  <2> DEFINE S == 0 .. n
  <2>4. f \in [S -> used] /\ IsFiniteSet(S) /\ Cardinality(used) < Cardinality(S)
    BY <2>1, <2>2, <2>3
  <2> HIDE DEF S
  <2>5. \E x, y \in S : x # y /\ f[x] = f[y]
    BY <2>4, FS_PigeonHole
  <2>6. PICK x, y \in 0 .. n : x # y /\ f[x] = f[y]
    BY <2>5 DEF S
  <2>7. port(x) = port(y)
    BY <2>6 DEF f
  <2> QED BY <2>6, <2>7
<1>3. \E k \in free : \A j \in free : k <= j
  <2>1. free \in SUBSET Nat
    BY <1>1
  <2> QED BY <1>2, <2>1, Least
<1> DEFINE k == CHOOSE k \in free : \A j \in free : k <= j
<1>4. k \in free
  BY <1>3
<1>5. k \in Nat /\ port(k) \notin used
  BY <1>1, <1>4
<1>6. NextFreePort(start, used, step) = start + step * k
  BY DEF NextFreePort
<1>7. ASSUME NEW j \in Nat, j < k PROVE port(j) \in used
  <2>1. \A i \in free : k <= i
    BY <1>3
  <2>2. j \in 0 .. n /\ j \notin free
    BY <1>1, <1>4, <1>7, <2>1
  <2> QED BY <2>2
<1> HIDE DEF k, free
<1>8. CASE step = 1
  BY <1>5, <1>6, <1>7, <1>8
<1>9. CASE step = 10
  BY <1>5, <1>6, <1>7, <1>9
<1> QED BY <1>8, <1>9

----------------------------------------------------------------------------
(* A single row                                                            *)

Rows == SerialRows \union CanRows \union ProbeRows

LEMMA OptionalFinite ==
  ASSUME NEW opt, IsOptional(opt)
  PROVE  IsFiniteSet(opt)
<1>1. CASE opt = {}
  BY <1>1, FS_EmptySet
<1>2. ASSUME NEW x \in opt PROVE IsFiniteSet(opt)
  <2>1. opt = {x}
    BY <1>2 DEF IsOptional
  <2> QED BY <2>1, FS_Singleton
<1> QED BY <1>1, <1>2

LEMMA RowPortsFinite ==
  ASSUME NEW r \in Rows, NEW row, IsRow(r, row)
  PROVE  IsFiniteSet(RowPorts(r, row))
<1>1. CASE r \notin ProbeRows
  BY <1>1, OptionalFinite, ConfigurationAssumption
     DEF Rows, IsRow, RowPorts, IsSerialRow, IsCanRow
<1>2. CASE r \in ProbeRows /\ row.kind = "disabled"
  BY <1>2, FS_EmptySet DEF RowPorts
<1>3. CASE r \in ProbeRows /\ row.kind # "disabled"
  <2>1. IsProbeRow(row)
    BY <1>3, ConfigurationAssumption DEF IsRow
  <2>2. row.kind \in ProbeKinds
    BY <1>3, <2>1 DEF IsProbeRow
  <2>3. \A d \in ProbeKinds :
          IsFiniteSet(DefaultPorts[d].gdb) /\ IsFiniteSet(DefaultPorts[d].telnet)
    BY OptionalFinite DEF DefaultPorts, ProbeKinds, IsOptional
  <2>4. IsFiniteSet(row.gdb) /\ IsFiniteSet(row.telnet) /\ IsFiniteSet(row.rtt)
    BY <2>1, OptionalFinite DEF IsProbeRow
  <2> DEFINE G == OrDefault(row.gdb, DefaultPorts[row.kind].gdb)
             T == IF DefaultPorts[row.kind].telnet = {} THEN {}
                  ELSE OrDefault(row.telnet, DefaultPorts[row.kind].telnet)
             R == IF row.kind = "stlink" THEN {} ELSE row.rtt
  <2>5. IsFiniteSet(G) /\ IsFiniteSet(T) /\ IsFiniteSet(R)
    BY <2>2, <2>3, <2>4, FS_EmptySet DEF OrDefault
  <2>6. RowPorts(r, row) = (G \union T) \union R
    BY <1>3 DEF RowPorts
  <2> HIDE DEF G, T, R
  <2> QED BY <2>5, <2>6, FS_Union
<1> QED BY <1>1, <1>2, <1>3

\* What the other rows use is finite.
LEMMA UsedFinite ==
  ASSUME NEW r, TypeOK
  PROVE  IsFiniteSet(UsedPorts(r))
<1> DEFINE D == DOMAIN rows \ {r}
           T == {RowPorts(q, rows[q]) : q \in D}
           f == [q \in D |-> RowPorts(q, rows[q])]
<1>1. IsFiniteSet(Rows)
  BY ConfigurationAssumption, FS_Union DEF Rows
<1>2. IsFiniteSet(D)
  BY <1>1, FS_Subset DEF TypeOK, Rows
<1>3. f \in Surjection(D, T)
  BY DEF Surjection
<1>4. IsFiniteSet(T)
  <2> HIDE DEF f, D, T
  <2> QED BY <1>2, <1>3, FS_Surjection
<1>5. \A S \in T : IsFiniteSet(S)
  BY RowPortsFinite DEF TypeOK, Rows
<1>6. UsedPorts(r) = UNION T
  BY DEF UsedPorts
<1> HIDE DEF T
<1> QED BY <1>4, <1>5, <1>6, FS_UNION

\* A row that has chosen its ports listens on what it says it uses, and on no port twice.
LEMMA ListensAsTold ==
  ASSUME NEW r \in Rows, NEW row, IsRow(r, row), Chosen(r, row)
  PROVE  /\ \A s \in Listens(r, row) : s[2] \in RowPorts(r, row)
         /\ \A s, t \in Listens(r, row) : s[2] = t[2] => s = t
<1>1. CASE r \in SerialRows
  <2>1. Listens(r, row) = {"server"} \X row.tcp /\ RowPorts(r, row) = row.tcp
    BY <1>1, ConfigurationAssumption
       DEF Listens, ToConfig, Chosen, Default, RowPorts, Sockets, JlinkSockets, StlinkSockets, OpenocdSockets
  <2>2. \A x, y \in row.tcp : x = y
    BY <1>1 DEF IsRow, IsSerialRow, IsOptional
  <2> QED BY <2>1, <2>2
<1>2. CASE r \in CanRows
  <2>1. Listens(r, row) = {"server"} \X row.tcp /\ RowPorts(r, row) = row.tcp
    BY <1>2, ConfigurationAssumption DEF Listens, Chosen, Default, RowPorts
  <2>2. \A x, y \in row.tcp : x = y
    BY <1>2, ConfigurationAssumption DEF IsRow, IsCanRow, IsOptional
  <2> QED BY <2>1, <2>2
<1>3. CASE r \in ProbeRows /\ row.kind = "disabled"
  BY <1>3 DEF Listens
<1>4. CASE r \in ProbeRows /\ row.kind # "disabled"
  <2>1. IsProbeRow(row) /\ r \notin SerialRows /\ r \notin CanRows
    BY <1>4, ConfigurationAssumption DEF IsRow
  <2>2. row.kind \in ProbeKinds
    BY <1>4, <2>1 DEF IsProbeRow
  <2> DEFINE G == Default(row.gdb, DefaultPorts[row.kind].gdb)
             T == IF row.kind = "stlink" THEN {}
                  ELSE Default(row.telnet, DefaultPorts[row.kind].telnet)
  <2>3. Listens(r, row) = ({"gdb"} \X G) \union ({"telnet"} \X T)
    BY <1>4, <2>1, <2>2 DEF Listens, ToConfig, Chosen, Sockets, JlinkSockets,
       StlinkSockets, OpenocdSockets, ResolvedGdbPort, ResolvedTelnetPort, ProbeKinds, Default
  <2>4. row.gdb # {0} /\ row.telnet # {0}
    BY <1>4, <2>1 DEF Chosen, IsProbeRow
  <2>5. G \union T \subseteq RowPorts(r, row)
    BY <1>4, <2>2, <2>4 DEF RowPorts, Default, OrDefault, DefaultPorts, ProbeKinds
  <2>6. ASSUME NEW x \in G, NEW y \in G
        PROVE  x = y
    BY <2>1, <2>2 DEF IsProbeRow, IsOptional, Default, DefaultPorts, ProbeKinds
  <2>7. ASSUME NEW x \in T, NEW y \in T
        PROVE  x = y
    BY <2>1, <2>2 DEF IsProbeRow, IsOptional, Default, DefaultPorts, ProbeKinds
  <2>8. ASSUME NEW x \in G, NEW y \in T
        PROVE  x # y
    <3>1. \E d \in DefaultPorts[row.kind].gdb : x % 10 = d % 10
      BY <1>4, <2>1, <2>2 DEF Chosen, IsProbeRow, Default, DefaultPorts, ProbeKinds
    <3>2. row.kind # "stlink" /\ \E d \in DefaultPorts[row.kind].telnet : y % 10 = d % 10
      BY <1>4, <2>1, <2>2 DEF Chosen, IsProbeRow, Default, DefaultPorts, ProbeKinds
    <3> QED BY <2>2, <3>1, <3>2 DEF DefaultPorts, ProbeKinds
  <2> HIDE DEF G, T
  <2> QED BY <2>3, <2>5, <2>6, <2>7, <2>8
<1> QED BY <1>1, <1>2, <1>3, <1>4 DEF Rows

\* _on_kind_changed() leaves a row that is one, and ports of its choice that no other uses.
LEMMA KindChangedRow ==
  ASSUME NEW r \in ProbeRows, NEW row, IsRow(r, row), NEW used, IsFiniteSet(used),
         NEW kind \in ProbeKinds \union {"disabled"}
  PROVE  /\ IsRow(r, KindChanged(row, kind, used))
         /\ KindChanged(row, kind, used).kind = kind
         /\ KindChanged(row, kind, used).serial = row.serial
         /\ Chosen(r, row) => /\ Chosen(r, KindChanged(row, kind, used))
                              /\ \A s \in Listens(r, KindChanged(row, kind, used)) : s[2] \notin used
<1> DEFINE new == KindChanged(row, kind, used)
           default(f) == IF kind = "disabled" THEN {} ELSE DefaultPorts[kind][f]
           kept(f) == IF row[f] = row.auto[f] \/ (kind = "stlink" /\ f = "telnet")
                      THEN {} ELSE row[f]
           picked(f) == IF kept(f) = {} /\ default(f) # {} /\ default(f) \subseteq used
                        THEN {NextFreePort(CHOOSE p \in default(f) : TRUE, used, 10)} ELSE {}
<1>1. IsProbeRow(row) /\ r \notin SerialRows /\ r \notin CanRows
  BY ConfigurationAssumption DEF IsRow
<1>2. /\ DOMAIN new = DOMAIN row
      /\ new.kind = kind
      /\ new.gdb = kept("gdb") \union picked("gdb")
      /\ new.telnet = kept("telnet") \union picked("telnet")
      /\ new.rtt = IF kind = "stlink" THEN {} ELSE row.rtt
      /\ new.rate = row.rate
      /\ new.auto = [f \in {"gdb", "telnet"} |-> picked(f)]
      /\ new.serial = row.serial
  BY <1>1 DEF KindChanged, IsProbeRow
<1> HIDE DEF new
<1>3. ASSUME NEW f \in {"gdb", "telnet"}, NEW d \in default(f)
      PROVE  default(f) = {d} /\ d \in Nat /\ d > 0
  BY <1>3 DEF DefaultPorts, ProbeKinds
<1>4. ASSUME NEW f \in {"gdb", "telnet"}, NEW x \in picked(f)
      PROVE  /\ picked(f) = {x} /\ x \in Nat /\ x > 0 /\ x \notin used /\ kept(f) = {}
             /\ kind # "disabled"
             /\ \E d \in default(f) : x % 10 = d % 10
  <2>1. PICK d \in default(f) : default(f) = {d} /\ d \in Nat /\ d > 0
    BY <1>3, <1>4
  <2>2. (CHOOSE p \in default(f) : TRUE) = d
    BY <2>1
  <2>3. x = NextFreePort(d, used, 10) /\ picked(f) = {x} /\ kept(f) = {} /\ kind # "disabled"
    BY <2>1, <2>2, <1>4
  <2> HIDE DEF picked, default, kept
  <2> QED BY <2>1, <2>3, NextPortIsFree
<1> HIDE DEF picked
<1>5. IsOptional(new.gdb) /\ IsOptional(new.telnet)
  BY <1>1, <1>2, <1>4 DEF IsOptional, IsProbeRow
<1>6. IsOptional(new.rtt) /\ IsOptional(new.rate)
  BY <1>1, <1>2 DEF IsOptional, IsProbeRow
<1>7. new.auto \in [{"gdb", "telnet"} -> SUBSET Int]
  BY <1>2, <1>4
<1>8. IsRow(r, new)
  BY <1>1, <1>2, <1>5, <1>6, <1>7 DEF IsRow, IsProbeRow
<1>9. ASSUME Chosen(r, row)
      PROVE  Chosen(r, new) /\ \A s \in Listens(r, new) : s[2] \notin used
  <2>1. kept("gdb") = {} /\ kept("telnet") = {} /\ row.rtt = {}
    BY <1>9 DEF Chosen
  <2>2. new.gdb = picked("gdb") /\ new.telnet = picked("telnet") /\ new.rtt = {}
    BY <1>2, <2>1
  <2>3. kind = "disabled" => picked("gdb") = {} /\ picked("telnet") = {}
    BY <1>4
  <2>4. kind = "disabled" => new.auto = NoPorts
    BY <1>2, <2>3 DEF NoPorts
  <2>5. Chosen(r, new)
    BY <1>2, <1>4, <2>2, <2>4 DEF Chosen
  <2>6. ASSUME kind # "disabled", NEW f \in {"gdb", "telnet"}
        PROVE  \A x \in Default(picked(f), DefaultPorts[kind][f]) : x \notin used
    <3>1. CASE picked(f) # {}
      BY <3>1, <2>6, <1>4 DEF Default
    <3>2. CASE picked(f) = {}
      <4>1. default(f) = {} \/ ~(default(f) \subseteq used)
        BY <2>1, <2>6, <3>2 DEF picked
      <4>2. \A x \in default(f) : x \notin used
        BY <4>1, <2>6, <1>3
      <4> QED BY <4>2, <2>6, <3>2 DEF Default
    <3> QED BY <3>1, <3>2
  <2>7. CASE kind = "disabled"
    BY <1>2, <2>5, <2>7 DEF Listens
  <2>8. CASE kind # "disabled"
    <3>1. new.kind \in ProbeKinds
      BY <2>8, <1>2
    <3>2. \A s \in Listens(r, new) : \/ s[2] \in Default(picked("gdb"), DefaultPorts[kind].gdb)
                                     \/ s[2] \in Default(picked("telnet"), DefaultPorts[kind].telnet)
      BY <1>1, <1>2, <2>2, <2>8, <3>1 DEF Listens, ToConfig, Sockets, JlinkSockets,
         StlinkSockets, OpenocdSockets, ResolvedGdbPort, ResolvedTelnetPort, ProbeKinds, Default
    <3>3. \A x \in Default(picked("gdb"), DefaultPorts[kind]["gdb"]) : x \notin used
      BY <2>6, <2>8
    <3>4. \A x \in Default(picked("telnet"), DefaultPorts[kind]["telnet"]) : x \notin used
      BY <2>6, <2>8
    <3> HIDE DEF default, kept
    <3> QED BY <2>5, <3>2, <3>3, <3>4
  <2> QED BY <2>5, <2>7, <2>8
<1> QED BY <1>2, <1>8, <1>9 DEF new

----------------------------------------------------------------------------
(* The rows together                                                       *)

\* A row of its own ports among the others: what each step does to the row it is about
\* is all there is to show.
LEMMA WithRow ==
  ASSUME RowsInv, NEW r \in Rows, NEW row, IsRow(r, row),
         rows' = With(r, row), phase' = phase, edits' \in 0 .. MaxEdits,
         typed' \in {typed, typed \union {r}}, moved' \in {moved, moved \union {r}},
         r \notin typed' => /\ Chosen(r, row)
                            /\ \/ \A s \in Listens(r, row) : s[2] \notin UsedPorts(r)
                               \/ r \in DOMAIN rows /\ Listens(r, row) = Listens(r, rows[r]),
         r \in ProbeRows \ moved' => \A k \in HasSerial \ {row.kind} : row.serial[k] = {}
  PROVE  RowsInv'
<1>1. /\ DOMAIN rows' = DOMAIN rows \union {r}
      /\ rows'[r] = row
      /\ \A q \in DOMAIN rows \ {r} : rows'[q] = rows[q]
  BY DEF With
<1>2. TypeOK'
  <2>1. TypeOK
    BY DEF RowsInv
  <2>2. DOMAIN rows' \subseteq SerialRows \union CanRows \union ProbeRows
    BY <1>1, <2>1 DEF TypeOK, Rows
  <2>3. \A q \in DOMAIN rows' : IsRow(q, rows'[q])
    BY <1>1, <2>1 DEF TypeOK
  <2>4. typed' \subseteq DOMAIN rows' /\ moved' \subseteq DOMAIN rows'
    BY <1>1, <2>1 DEF TypeOK
  <2> QED BY <2>1, <2>2, <2>3, <2>4 DEF TypeOK
<1>3. OwnChoice'
  <2>1. \A q \in DOMAIN rows' \ typed' : Chosen(q, rows'[q])
    BY <1>1 DEF RowsInv, OwnChoice
  <2> QED BY <2>1 DEF OwnChoice
<1>4. UntouchedApart'
  <2>1. ASSUME NEW p \in DOMAIN rows' \ typed', NEW q \in DOMAIN rows' \ typed',
               NEW s \in Listens(p, rows'[p]), NEW t \in Listens(q, rows'[q]), s[2] = t[2]
        PROVE  p = q /\ s = t
    <3>1. CASE p # r /\ q # r
      BY <1>1, <2>1, <3>1 DEF RowsInv, UntouchedApart
    <3>2. CASE p = r /\ q = r
      BY <1>1, <2>1, <3>2, ListensAsTold
    <3>3. ASSUME r \notin typed', NEW o \in (DOMAIN rows \ {r}) \ typed,
                 NEW x \in Listens(r, row), NEW y \in Listens(o, rows[o])
          PROVE  x[2] # y[2]
      <4>1. CASE \A z \in Listens(r, row) : z[2] \notin UsedPorts(r)
        <5>1. y[2] \in RowPorts(o, rows[o])
          BY <3>3, ListensAsTold DEF RowsInv, TypeOK, OwnChoice, Rows
        <5> QED BY <3>3, <4>1, <5>1 DEF UsedPorts
      <4>2. CASE r \in DOMAIN rows /\ Listens(r, row) = Listens(r, rows[r])
        BY <3>3, <4>2 DEF RowsInv, UntouchedApart
      <4> QED BY <3>3, <4>1, <4>2
    <3>4. CASE p = r /\ q # r
      BY <1>1, <2>1, <3>3, <3>4
    <3>5. CASE p # r /\ q = r
      BY <1>1, <2>1, <3>3, <3>5
    <3> QED BY <3>1, <3>2, <3>4, <3>5
  <2> QED BY <2>1 DEF UntouchedApart
<1>5. OneProbe'
  <2>1. \A q \in (DOMAIN rows' \intersect ProbeRows) \ moved' :
          \A k \in HasSerial \ {rows'[q].kind} : rows'[q].serial[k] = {}
    BY <1>1 DEF RowsInv, OneProbe
  <2> QED BY <2>1 DEF OneProbe
<1> QED BY <1>2, <1>3, <1>4, <1>5 DEF RowsInv

\* The rows as they are created.
LEMMA NewRow ==
  ASSUME NEW r \in Rows, NEW port \in Int
  PROVE  /\ r \in SerialRows => IsRow(r, SerialRow(port)) /\ Chosen(r, SerialRow(port))
         /\ r \in SerialRows => Listens(r, SerialRow(port)) = {<<"server", port>>}
         /\ r \in CanRows => IsRow(r, CanRow(port)) /\ Chosen(r, CanRow(port))
         /\ r \in CanRows => Listens(r, CanRow(port)) = {<<"server", port>>}
         /\ r \in ProbeRows => IsRow(r, ProbeRow) /\ Chosen(r, ProbeRow) /\ Listens(r, ProbeRow) = {}
<1>1. CASE r \in SerialRows
  BY <1>1, ConfigurationAssumption DEF IsRow, IsSerialRow, IsOptional, SerialRow, Chosen,
     Listens, ToConfig, Sockets, JlinkSockets, StlinkSockets, OpenocdSockets, Default, DefaultBaudrate
<1>2. CASE r \in CanRows
  BY <1>2, ConfigurationAssumption DEF IsRow, IsCanRow, IsOptional, CanRow, Chosen,
     Listens, Default, DefaultBitrate
<1>3. CASE r \in ProbeRows
  BY <1>3, ConfigurationAssumption DEF IsRow, IsProbeRow, IsOptional, ProbeRow, NoPorts, Chosen,
     Listens, HasSerial
<1> QED BY <1>1, <1>2, <1>3 DEF Rows

LEMMA InitRows == Init => RowsInv
<1> SUFFICES ASSUME Init PROVE RowsInv
  OBVIOUS
<1>1. CASE phase = "parsing" /\ rows = <<>>
  BY <1>1, ConfigurationAssumption
     DEF Init, RowsInv, TypeOK, OwnChoice, UntouchedApart, OneProbe
<1>2. ASSUME phase = "editing", NEW s \in SerialRows, NEW c \in CanRows, NEW p \in ProbeRows,
             rows = [r \in {s, c, p} |-> IF r = s THEN SerialRow(DefaultSerialPort)
                                         ELSE IF r = c THEN CanRow(DefaultCanPort) ELSE ProbeRow]
      PROVE  RowsInv
  <2>1. s # c /\ s # p /\ c # p /\ s \in Rows /\ c \in Rows /\ p \in Rows
    BY ConfigurationAssumption DEF Rows
  <2>2. /\ DOMAIN rows = {s, c, p} /\ rows[s] = SerialRow(DefaultSerialPort)
        /\ rows[c] = CanRow(DefaultCanPort) /\ rows[p] = ProbeRow
    BY <1>2, <2>1
  <2>3. DefaultSerialPort \in Int /\ DefaultCanPort \in Int /\ DefaultSerialPort # DefaultCanPort
    BY DEF DefaultSerialPort, DefaultCanPort
  <2>4. \A r \in DOMAIN rows : IsRow(r, rows[r]) /\ Chosen(r, rows[r])
    BY <2>1, <2>2, <2>3, NewRow
  <2>5. /\ Listens(s, rows[s]) = {<<"server", DefaultSerialPort>>}
        /\ Listens(c, rows[c]) = {<<"server", DefaultCanPort>>}
        /\ Listens(p, rows[p]) = {}
    BY <2>1, <2>2, <2>3, NewRow
  <2>6. UntouchedApart
    BY <2>1, <2>2, <2>3, <2>5 DEF UntouchedApart
  <2>7. OneProbe
    <3>1. DOMAIN rows \intersect ProbeRows = {p}
      BY <2>2, ConfigurationAssumption
    <3>2. \A k \in HasSerial : rows[p].serial[k] = {}
      BY <2>2 DEF ProbeRow
    <3>3. \A r \in (DOMAIN rows \intersect ProbeRows) \ moved :
            \A k \in HasSerial \ {rows[r].kind} : rows[r].serial[k] = {}
      BY <3>1, <3>2, Zenon
    <3> QED BY <3>3 DEF OneProbe
  <2>8. TypeOK
    <3>1. typed = {} /\ moved = {} /\ edits \in 0 .. MaxEdits
      BY ConfigurationAssumption DEF Init
    <3>2. DOMAIN rows \subseteq SerialRows \union CanRows \union ProbeRows
      BY <2>2
    <3> QED BY <1>2, <2>4, <3>1, <3>2 DEF TypeOK
  <2> QED BY <2>4, <2>6, <2>7, <2>8 DEF RowsInv, OwnChoice
<1> QED BY <1>1, <1>2 DEF Init

LEMMA AddRowKeeps ==
  ASSUME RowsInv, NEW r \in Rows, AddRow(r)
  PROVE  RowsInv'
<1> DEFINE port(d) == NextFreePort(d, UsedPorts(r), 1)
<1>1. /\ r \notin DOMAIN rows /\ r \notin typed /\ r \notin moved
      /\ phase' = phase /\ edits' = edits /\ typed' = typed /\ moved' = moved
      /\ edits' \in 0 .. MaxEdits
  BY DEF AddRow, Editing, RowsInv, TypeOK
<1>2. \A d \in {DefaultSerialPort, DefaultCanPort} :
        port(d) \in Int /\ port(d) \notin UsedPorts(r)
  BY UsedFinite, NextPortIsFree DEF RowsInv, DefaultSerialPort, DefaultCanPort
<1> HIDE DEF port
<1>3. CASE r \in SerialRows
  <2>1. rows' = With(r, SerialRow(port(DefaultSerialPort)))
    BY <1>3 DEF AddRow, port
  <2> QED BY <1>1, <1>2, <1>3, <2>1, NewRow, WithRow, ConfigurationAssumption
<1>4. CASE r \in CanRows
  <2>1. rows' = With(r, CanRow(port(DefaultCanPort)))
    BY <1>4, ConfigurationAssumption DEF AddRow, port
  <2> QED BY <1>1, <1>2, <1>4, <2>1, NewRow, WithRow, ConfigurationAssumption
<1>5. CASE r \in ProbeRows
  <2>1. rows' = With(r, ProbeRow)
    BY <1>5, ConfigurationAssumption DEF AddRow
  <2>2. \A k \in HasSerial : ProbeRow.serial[k] = {}
    BY DEF ProbeRow
  <2>3. IsRow(r, ProbeRow) /\ Chosen(r, ProbeRow) /\ Listens(r, ProbeRow) = {}
    BY <1>5, NewRow
  <2> QED BY <1>1, <2>1, <2>2, <2>3, WithRow
<1> QED BY <1>3, <1>4, <1>5 DEF Rows

LEMMA RemoveRowKeeps ==
  ASSUME RowsInv, NEW r \in Rows, RemoveRow(r)
  PROVE  RowsInv'
<1>1. /\ DOMAIN rows' = DOMAIN rows \ {r}
      /\ \A q \in DOMAIN rows' : rows'[q] = rows[q]
      /\ typed' = typed \ {r} /\ moved' = moved \ {r}
      /\ phase' = phase /\ edits' = edits
  BY DEF RemoveRow, Editing, Without
<1>2. TypeOK'
  BY <1>1 DEF RowsInv, TypeOK
<1>3. OwnChoice'
  BY <1>1 DEF RowsInv, OwnChoice
<1>4. UntouchedApart'
  BY <1>1 DEF RowsInv, UntouchedApart
<1>5. OneProbe'
  BY <1>1 DEF RowsInv, OneProbe
<1> QED BY <1>2, <1>3, <1>4, <1>5 DEF RowsInv

\* Of a serial or CAN row only the port matters to where it listens.
LEMMA TcpListens ==
  ASSUME NEW r \in Rows \ ProbeRows, NEW row, NEW other, row.tcp = other.tcp
  PROVE  Listens(r, row) = Listens(r, other)
<1>1. CASE r \in CanRows
  BY <1>1 DEF Listens
<1>2. CASE r \in SerialRows
  <2>1. \A x : Listens(r, x) = {"server"} \X Default(x.tcp, {DefaultSerialPort})
    <3> TAKE x
    <3> DEFINE c == [type |-> "serial", device |-> x.device,
                     rate |-> Default(x.rate, {DefaultBaudrate}),
                     tcp  |-> Default(x.tcp, {DefaultSerialPort})]
    <3>1. ToConfig(r, x) = {c}
      BY <1>2 DEF ToConfig
    <3>2. Listens(r, x) = Sockets(c)
      BY <1>2, <3>1, ConfigurationAssumption DEF Listens
    <3>3. c.type = "serial" /\ c.tcp = Default(x.tcp, {DefaultSerialPort})
      OBVIOUS
    <3> HIDE DEF c
    <3> QED BY <3>2, <3>3 DEF Sockets, JlinkSockets, StlinkSockets, OpenocdSockets
  <2> QED BY <2>1
<1> QED BY <1>1, <1>2 DEF Rows

LEMMA ChooseKeeps ==
  ASSUME RowsInv, NEW r \in Rows, Choose(r)
  PROVE  RowsInv'
<1>1. /\ r \in DOMAIN rows /\ r \notin ProbeRows /\ IsRow(r, rows[r])
      /\ phase' = phase /\ typed' = typed /\ moved' = moved /\ edits' \in 0 .. MaxEdits
      /\ r \notin typed' => Chosen(r, rows[r])
  BY DEF Choose, Editing, RowsInv, TypeOK, OwnChoice
<1>2. CASE r \in SerialRows
  <2>1. PICK d \in SUBSET Devices : rows' = With(r, [rows[r] EXCEPT !.device = d])
    BY <1>2 DEF Choose
  <2> DEFINE row == [rows[r] EXCEPT !.device = d]
  <2>2. row.tcp = rows[r].tcp /\ row.rate = rows[r].rate /\ row.device = d /\ DOMAIN row = DOMAIN rows[r]
    BY <1>1, <1>2 DEF IsRow, IsSerialRow
  <2> HIDE DEF row
  <2>3. IsRow(r, row)
    BY <1>1, <1>2, <2>2 DEF IsRow, IsSerialRow
  <2>4. Chosen(r, rows[r]) => Chosen(r, row)
    BY <1>1, <2>2 DEF Chosen
  <2>5. Listens(r, row) = Listens(r, rows[r])
    BY <1>1, <2>2, TcpListens
  <2>6. rows' = With(r, row)
    BY <2>1 DEF row
  <2> QED BY <1>1, <2>3, <2>4, <2>5, <2>6, WithRow
<1>3. CASE r \in CanRows
  <2>1. r \notin SerialRows /\ IsCanRow(rows[r])
    BY <1>1, <1>3, ConfigurationAssumption DEF IsRow
  <2>2. PICK row : /\ rows' = With(r, row)
                   /\ \/ \E i \in CanInterfaces : row = [rows[r] EXCEPT !.interface = i]
                      \/ \E ch \in SUBSET {a[2] : a \in Adapters} : row = [rows[r] EXCEPT !.channel = ch]
    <3>1. CASE \E i \in {a[1] : a \in Adapters} \intersect CanInterfaces :
                 rows' = With(r, [rows[r] EXCEPT !.interface = i])
      BY <3>1
    <3>2. CASE \E ch \in {{}} \union {{a[2]} : a \in Adapters} :
                 rows' = With(r, [rows[r] EXCEPT !.channel = ch])
      BY <3>2
    <3> QED BY <2>1, <3>1, <3>2 DEF Choose
  <2>3. row.tcp = rows[r].tcp /\ IsCanRow(row)
    BY <2>1, <2>2 DEF IsCanRow
  <2>4. IsRow(r, row)
    BY <1>3, <2>1, <2>3 DEF IsRow
  <2>5. Chosen(r, rows[r]) => Chosen(r, row)
    BY <1>1, <2>3 DEF Chosen
  <2>6. Listens(r, row) = Listens(r, rows[r])
    BY <1>1, <2>3, TcpListens
  <2> QED BY <1>1, <2>2, <2>4, <2>5, <2>6, WithRow
<1> QED BY <1>1, <1>2, <1>3 DEF Rows

LEMMA TypeNumberKeeps ==
  ASSUME RowsInv, NEW r \in Rows, NEW f \in {"tcp", "gdb", "telnet", "rtt", "rate"},
         NEW n, IsOptional(n), TypeNumber(r, f, n)
  PROVE  RowsInv'
<1>1. /\ r \in DOMAIN rows /\ IsRow(r, rows[r]) /\ f \in Fields(r)
      /\ phase' = phase /\ moved' = moved /\ edits' \in 0 .. MaxEdits
      /\ typed' = IF f = "rate" THEN typed ELSE typed \union {r}
      /\ r \notin typed => Chosen(r, rows[r])
      /\ r \in ProbeRows \ moved => \A k \in HasSerial \ {rows[r].kind} : rows[r].serial[k] = {}
  BY ConfigurationAssumption DEF TypeNumber, Edit, Editing, RowsInv, TypeOK, OwnChoice, OneProbe
<1> DEFINE row == [rows[r] EXCEPT ![f] = n]
<1>2. rows' = With(r, row)
  BY DEF TypeNumber
<1>3. CASE r \notin ProbeRows
  <2>1. f \in {"tcp", "rate"}
    BY <1>1, <1>3 DEF Fields
  <2>2. /\ DOMAIN row = DOMAIN rows[r] /\ row[f] = n
        /\ \A g \in DOMAIN row \ {f} : row[g] = rows[r][g]
    BY <1>1, <1>3, <2>1 DEF IsRow, IsSerialRow, IsCanRow, Rows
  <2> HIDE DEF row
  <2>3. IsRow(r, row)
    BY <1>1, <1>3, <2>1, <2>2 DEF IsRow, IsSerialRow, IsCanRow, Rows
  <2>4. ASSUME f = "rate"
        PROVE  /\ Chosen(r, rows[r]) => Chosen(r, row)
               /\ Listens(r, row) = Listens(r, rows[r])
    <3>1. row.tcp = rows[r].tcp
      BY <1>1, <1>3, <2>2, <2>4 DEF IsRow, IsSerialRow, IsCanRow, Rows
    <3> QED BY <1>3, <3>1, TcpListens DEF Chosen
  <2> QED BY <1>1, <1>2, <1>3, <2>1, <2>3, <2>4, WithRow
<1>4. CASE r \in ProbeRows
  <2>1. IsProbeRow(rows[r]) /\ r \notin SerialRows /\ r \notin CanRows
    BY <1>1, <1>4, ConfigurationAssumption DEF IsRow
  <2>2. f \in {"gdb", "telnet", "rtt", "rate"} /\ rows[r].kind # "disabled"
    BY <1>1, <1>4 DEF Fields
  <2>3. /\ DOMAIN row = DOMAIN rows[r] /\ row[f] = n
        /\ \A g \in DOMAIN row \ {f} : row[g] = rows[r][g]
    BY <2>1, <2>2 DEF IsProbeRow
  <2> HIDE DEF row
  <2>4. row.kind = rows[r].kind /\ row.auto = rows[r].auto /\ row.serial = rows[r].serial
    BY <2>1, <2>2, <2>3 DEF IsProbeRow
  <2>5. IsRow(r, row)
    BY <2>1, <2>2, <2>3, <2>4 DEF IsRow, IsProbeRow
  <2>6. ASSUME f = "rate"
        PROVE  /\ Chosen(r, rows[r]) => Chosen(r, row)
               /\ Listens(r, row) = Listens(r, rows[r])
    <3>1. row.gdb = rows[r].gdb /\ row.telnet = rows[r].telnet /\ row.rtt = rows[r].rtt
      BY <2>1, <2>3, <2>6 DEF IsProbeRow
    <3>2. Chosen(r, rows[r]) => Chosen(r, row)
      BY <2>4, <3>1, <1>4 DEF Chosen
    <3>3. Listens(r, row) = Listens(r, rows[r])
      <4>1. row.kind \in ProbeKinds
        BY <2>1, <2>2, <2>4 DEF IsProbeRow
      <4> USE <1>4, <2>1, <2>4, <3>1
          DEF Listens, ToConfig, Sockets, JlinkSockets, StlinkSockets, OpenocdSockets,
              ResolvedGdbPort, ResolvedTelnetPort
      <4>2. CASE row.kind = "jlink"
        BY <4>2
      <4>3. CASE row.kind = "stlink"
        BY <4>3
      <4>4. CASE row.kind = "openocd"
        BY <4>4
      <4> QED BY <4>1, <4>2, <4>3, <4>4 DEF ProbeKinds
    <3> QED BY <3>2, <3>3
  <2> QED BY <1>1, <1>2, <2>4, <2>5, <2>6, WithRow
<1> QED BY <1>3, <1>4

\* Only the serial number of a probe row is another.
LEMMA Repinned ==
  ASSUME NEW r \in ProbeRows, NEW row, IsRow(r, row),
         NEW serial \in [HasSerial -> {p[2] : p \in Detected} \union {{}}]
  PROVE  /\ IsRow(r, [row EXCEPT !.serial = serial])
         /\ [row EXCEPT !.serial = serial].kind = row.kind
         /\ [row EXCEPT !.serial = serial].serial = serial
         /\ Chosen(r, row) => Chosen(r, [row EXCEPT !.serial = serial])
         /\ Listens(r, [row EXCEPT !.serial = serial]) = Listens(r, row)
<1> DEFINE new == [row EXCEPT !.serial = serial]
<1>1. IsProbeRow(row) /\ r \notin SerialRows /\ r \notin CanRows
  BY ConfigurationAssumption DEF IsRow
<1>2. /\ DOMAIN new = DOMAIN row /\ new.serial = serial
      /\ \A g \in DOMAIN row \ {"serial"} : new[g] = row[g]
  BY <1>1 DEF IsProbeRow
<1> HIDE DEF new
<1>3. /\ new.kind = row.kind /\ new.gdb = row.gdb /\ new.telnet = row.telnet
      /\ new.rtt = row.rtt /\ new.rate = row.rate /\ new.auto = row.auto
  BY <1>1, <1>2 DEF IsProbeRow
<1>4. IsRow(r, new)
  BY <1>1, <1>2, <1>3 DEF IsRow, IsProbeRow
<1>5. Chosen(r, row) => Chosen(r, new)
  BY <1>3 DEF Chosen
<1>6. Listens(r, new) = Listens(r, row)
  <2>1. CASE row.kind = "disabled"
    BY <1>3, <2>1 DEF Listens
  <2>2. CASE row.kind \in ProbeKinds
    BY <1>1, <1>3, <2>2 DEF Listens, ToConfig, Sockets, JlinkSockets, StlinkSockets,
       OpenocdSockets, ResolvedGdbPort, ResolvedTelnetPort, ProbeKinds
  <2> QED BY <1>1, <2>1, <2>2 DEF IsProbeRow
<1> QED BY <1>2, <1>3, <1>4, <1>5, <1>6 DEF new

LEMMA TypeSerialKeeps ==
  ASSUME RowsInv, NEW r \in Rows, NEW p \in Detected, TypeSerial(r, p[2])
  PROVE  RowsInv'
<1>1. /\ r \in DOMAIN rows /\ r \in ProbeRows /\ IsRow(r, rows[r]) /\ rows[r].kind \in HasSerial
      /\ phase' = phase /\ typed' = typed /\ moved' = moved \union {r} /\ edits' \in 0 .. MaxEdits
      /\ r \notin typed => Chosen(r, rows[r])
  BY ConfigurationAssumption DEF TypeSerial, Edit, Editing, RowsInv, TypeOK, OwnChoice
<1> DEFINE serial == [rows[r].serial EXCEPT ![rows[r].kind] = p[2]]
<1>2. rows' = With(r, [rows[r] EXCEPT !.serial = serial])
  BY DEF TypeSerial
<1>3. serial \in [HasSerial -> {q[2] : q \in Detected} \union {{}}]
  BY <1>1, ConfigurationAssumption DEF IsRow, IsProbeRow
<1> HIDE DEF serial
<1> QED BY <1>1, <1>2, <1>3, Repinned, WithRow

LEMMA ChangeKindKeeps ==
  ASSUME RowsInv, NEW r \in Rows, NEW kind \in ProbeKinds \union {"disabled"}, ChangeKind(r, kind)
  PROVE  RowsInv'
<1>1. /\ r \in DOMAIN rows /\ r \in ProbeRows /\ IsRow(r, rows[r])
      /\ phase' = phase /\ typed' = typed /\ edits' \in 0 .. MaxEdits
      /\ moved' \in {moved, moved \union {r}}
      /\ r \notin moved' => \A k \in HasSerial : rows[r].serial[k] = {}
      /\ r \notin typed => Chosen(r, rows[r])
      /\ rows' = With(r, KindChanged(rows[r], kind, UsedPorts(r)))
  BY DEF ChangeKind, Editing, RowsInv, TypeOK, OwnChoice
<1>2. IsFiniteSet(UsedPorts(r))
  BY UsedFinite DEF RowsInv
<1> QED BY <1>1, <1>2, KindChangedRow, WithRow

LEMMA DetectCanKeeps ==
  ASSUME RowsInv, NEW r \in Rows, NEW a \in Adapters, DetectCan(r, a)
  PROVE  RowsInv'
<1> DEFINE row == [rows[r] EXCEPT !.interface = IF a[1] \in CanInterfaces THEN a[1] ELSE @,
                                  !.channel = {a[2]}]
<1>1. /\ r \in DOMAIN rows /\ r \in CanRows /\ r \notin SerialRows /\ r \notin ProbeRows
      /\ IsCanRow(rows[r])
      /\ phase' = phase /\ typed' = typed /\ moved' = moved /\ edits' \in 0 .. MaxEdits
      /\ r \notin typed => Chosen(r, rows[r])
      /\ rows' = With(r, row)
  BY ConfigurationAssumption DEF DetectCan, Editing, RowsInv, TypeOK, OwnChoice, IsRow
<1>2. row.tcp = rows[r].tcp /\ IsCanRow(row)
  BY <1>1 DEF IsCanRow
<1> HIDE DEF row
<1>3. IsRow(r, row)
  BY <1>1, <1>2 DEF IsRow
<1>4. Chosen(r, rows[r]) => Chosen(r, row)
  BY <1>1, <1>2 DEF Chosen
<1>5. Listens(r, row) = Listens(r, rows[r])
  BY <1>1, <1>2, TcpListens
<1> QED BY <1>1, <1>3, <1>4, <1>5, WithRow

\* Pinning a row to a probe of its kind, if it is one.
LEMMA PinnedRow ==
  ASSUME NEW r \in ProbeRows, NEW row, IsRow(r, row), NEW p \in Detected
  PROVE  /\ IsRow(r, Pinned(row, p[2]))
         /\ Pinned(row, p[2]).kind = row.kind
         /\ \A k \in HasSerial \ {row.kind} : Pinned(row, p[2]).serial[k] = row.serial[k]
         /\ \A k \in HasSerial : Pinned(row, p[2]).serial[k] \in {row.serial[k], p[2]}
         /\ Chosen(r, row) => Chosen(r, Pinned(row, p[2]))
         /\ Listens(r, Pinned(row, p[2])) = Listens(r, row)
<1>1. IsProbeRow(row)
  BY ConfigurationAssumption DEF IsRow
<1>2. CASE row.kind \in HasSerial /\ row.serial[row.kind] = {}
  <2> DEFINE serial == [row.serial EXCEPT ![row.kind] = p[2]]
  <2>1. Pinned(row, p[2]) = [row EXCEPT !.serial = serial]
    BY <1>2 DEF Pinned
  <2>2. /\ serial \in [HasSerial -> {q[2] : q \in Detected} \union {{}}]
        /\ \A k \in HasSerial : serial[k] = IF k = row.kind THEN p[2] ELSE row.serial[k]
    BY <1>1, <1>2 DEF IsProbeRow
  <2> HIDE DEF serial
  <2> QED BY <2>1, <2>2, Repinned
<1>3. CASE ~(row.kind \in HasSerial /\ row.serial[row.kind] = {})
  BY <1>3 DEF Pinned
<1> QED BY <1>2, <1>3

\* What "Detect" makes of a probe row.
LEMMA DetectedRow ==
  ASSUME RowsInv, NEW r \in Rows, NEW p \in Detected, DetectProbe(r, p)
  PROVE  \E row, new :
           /\ r \in ProbeRows /\ r \in DOMAIN rows
           /\ IsRow(r, row) /\ row.serial = rows[r].serial
           /\ rows[r].kind \in {"disabled", row.kind}
           /\ r \notin typed =>
                /\ Chosen(r, row)
                /\ \/ \A s \in Listens(r, row) : s[2] \notin UsedPorts(r)
                   \/ Listens(r, row) = Listens(r, rows[r])
           /\ \/ new = row
              \/ /\ new = Pinned(row, p[2]) /\ p[1] = row.kind
                 /\ \A s \in p[2] : <<p[1], s>> \notin UsedProbes(r)
           /\ rows' = With(r, new)
<1> DEFINE row == IF rows[r].kind = "disabled"
                  THEN KindChanged(rows[r], p[1], UsedPorts(r)) ELSE rows[r]
           free == p[2] # {} /\ \A s \in p[2] : <<p[1], s>> \notin UsedProbes(r)
           new == IF free /\ p[1] = row.kind THEN Pinned(row, p[2]) ELSE row
<1>1. r \in ProbeRows /\ r \in DOMAIN rows /\ rows' = With(r, new) /\ p[1] \in ProbeKinds
  BY ConfigurationAssumption DEF DetectProbe
<1>2. IsRow(r, rows[r]) /\ IsFiniteSet(UsedPorts(r)) /\ (r \notin typed => Chosen(r, rows[r]))
  BY <1>1, UsedFinite DEF RowsInv, TypeOK, OwnChoice
<1>3. CASE rows[r].kind = "disabled"
  <2>1. row = KindChanged(rows[r], p[1], UsedPorts(r))
    BY <1>3
  <2>2. /\ IsRow(r, row) /\ row.serial = rows[r].serial
        /\ Chosen(r, rows[r]) => /\ Chosen(r, row)
                                 /\ \A s \in Listens(r, row) : s[2] \notin UsedPorts(r)
    BY <1>1, <1>2, <2>1, KindChangedRow
  <2> HIDE DEF row
  <2> QED BY <1>1, <1>2, <1>3, <2>2
<1>4. CASE rows[r].kind # "disabled"
  <2>1. row = rows[r]
    BY <1>4
  <2> HIDE DEF row
  <2> QED BY <1>1, <1>2, <2>1
<1> QED BY <1>3, <1>4

LEMMA DetectProbeKeeps ==
  ASSUME RowsInv, NEW r \in Rows, NEW p \in Detected, DetectProbe(r, p)
  PROVE  RowsInv'
<1>1. PICK row, new :
        /\ r \in ProbeRows /\ r \in DOMAIN rows
        /\ IsRow(r, row) /\ row.serial = rows[r].serial
        /\ rows[r].kind \in {"disabled", row.kind}
        /\ r \notin typed =>
             /\ Chosen(r, row)
             /\ \/ \A s \in Listens(r, row) : s[2] \notin UsedPorts(r)
                \/ Listens(r, row) = Listens(r, rows[r])
        /\ \/ new = row
           \/ /\ new = Pinned(row, p[2]) /\ p[1] = row.kind
              /\ \A s \in p[2] : <<p[1], s>> \notin UsedProbes(r)
        /\ rows' = With(r, new)
  BY DetectedRow
<1>2. /\ phase' = phase /\ typed' = typed /\ moved' = moved /\ edits' \in 0 .. MaxEdits
      /\ r \notin moved => \A k \in HasSerial \ {rows[r].kind} : rows[r].serial[k] = {}
  BY <1>1 DEF DetectProbe, Editing, RowsInv, TypeOK, OneProbe
<1>3. r \notin moved => \A k \in HasSerial \ {row.kind} : row.serial[k] = {}
  BY <1>1, <1>2 DEF HasSerial
<1>4. /\ IsRow(r, new) /\ new.kind = row.kind
      /\ \A k \in HasSerial \ {row.kind} : new.serial[k] = row.serial[k]
      /\ Chosen(r, row) => Chosen(r, new)
      /\ Listens(r, new) = Listens(r, row)
  BY <1>1, PinnedRow
<1>5. r \in ProbeRows \ moved' => \A k \in HasSerial \ {new.kind} : new.serial[k] = {}
  BY <1>2, <1>3, <1>4
<1>6. r \notin typed' => /\ Chosen(r, new)
                         /\ \/ \A s \in Listens(r, new) : s[2] \notin UsedPorts(r)
                            \/ r \in DOMAIN rows /\ Listens(r, new) = Listens(r, rows[r])
  BY <1>1, <1>2, <1>4
<1> QED BY <1>1, <1>2, <1>4, <1>5, <1>6, WithRow

LEMMA OptionalNumbers ==
  /\ \A n \in {{}} \union {{x} : x \in Numbers} : IsOptional(n)
  /\ \A n \in Rates : IsOptional({n})
BY ConfigurationAssumption DEF IsOptional

LEMMA StepRows == RowsInv /\ [Next]_vars => RowsInv'
<1> SUFFICES ASSUME RowsInv, [Next]_vars PROVE RowsInv'
  OBVIOUS
<1>1. ASSUME rows' = rows, typed' = typed, moved' = moved, edits' = edits,
             phase' \in {"parsing", "editing", "refused", "started"}
      PROVE  RowsInv'
  <2>1. TypeOK'
    BY <1>1 DEF RowsInv, TypeOK
  <2>2. OwnChoice' /\ UntouchedApart' /\ OneProbe'
    BY <1>1 DEF RowsInv, OwnChoice, UntouchedApart, OneProbe
  <2> QED BY <2>1, <2>2 DEF RowsInv
<1>2. ASSUME NEW r \in Rows, AddRow(r) \/ RemoveRow(r) \/ Choose(r) PROVE RowsInv'
  BY <1>2, AddRowKeeps, RemoveRowKeeps, ChooseKeeps
<1>3. ASSUME NEW r \in Rows, NEW f \in {"tcp", "gdb", "telnet", "rtt"},
             NEW n \in {{}} \union {{x} : x \in Numbers}, TypeNumber(r, f, n)
      PROVE  RowsInv'
  BY <1>3, OptionalNumbers, TypeNumberKeeps
<1>4. ASSUME NEW r \in Rows, NEW n \in Rates, TypeNumber(r, "rate", {n}) PROVE RowsInv'
  BY <1>4, OptionalNumbers, TypeNumberKeeps
<1>5. ASSUME NEW r \in Rows, NEW p \in Detected, TypeSerial(r, p[2]) \/ DetectProbe(r, p)
      PROVE  RowsInv'
  BY <1>5, TypeSerialKeeps, DetectProbeKeeps
<1>6. ASSUME NEW r \in Rows, NEW k \in ProbeKinds \union {"disabled"}, ChangeKind(r, k)
      PROVE  RowsInv'
  BY <1>6, ChangeKindKeeps
<1>7. ASSUME NEW r \in Rows, NEW a \in Adapters, DetectCan(r, a) PROVE RowsInv'
  BY <1>7, DetectCanKeeps
<1>8. CASE ClickStart
  <2>1. phase' \in {"refused", "started"}
    BY <1>8 DEF ClickStart, Unreadable, Submit
  <2> QED BY <1>1, <1>8, <2>1 DEF ClickStart
<1>9. CASE BackToEditing
  BY <1>1, <1>9 DEF BackToEditing
<1>10. CASE Main
  <2>1. phase' \in {"refused", "started"}
    BY <1>10 DEF Main, Unreadable, Submit
  <2> QED BY <1>1, <1>10, <2>1 DEF Main
<1>11. CASE UNCHANGED vars
  BY <1>1, <1>11 DEF vars, RowsInv, TypeOK
<1> QED BY <1>2, <1>3, <1>4, <1>5, <1>6, <1>7, <1>8, <1>9, <1>10, <1>11 DEF Next, Rows

\* However rows are added, removed, chosen, detected and changed, those in which no port was
\* typed listen on ports of their own: next_free_port() and what the rows tell of each other.
THEOREM RowsInvariance == Spec => []RowsInv
<1>1. Init => RowsInv
  BY InitRows
<1>2. RowsInv /\ [Next]_vars => RowsInv'
  BY StepRows
<1> QED BY <1>1, <1>2, PTL DEF Spec

----------------------------------------------------------------------------
(* What is started and what is refused                                     *)

LEMMA FlagTypes ==
  ASSUME NEW flag, NEW spec, NEW c \in FromFlag(flag, spec)
  PROVE  IsChannel(c)
<1>1. \A d \in Serial(spec, Unset) \union Serial(spec, Falsy) : d.type = "serial"
  BY DEF Serial
<1>2. \A d \in Can(spec, Unset) \union Can(spec, Falsy) : d.type = "can"
  BY DEF Can
<1>3. \A d \in ProbeFromFlags(spec) \union ProbeFromSpec(spec) :
        d.type \in ProbeKinds /\ (d.type # "stlink" => d.ap = {})
  BY DEF ProbeFromFlags, ProbeFromSpec, Probe
<1> QED BY <1>1, <1>2, <1>3 DEF FromFlag, IsChannel, ChannelTypes, ProbeKinds

LEMMA RowTypes ==
  ASSUME NEW r \in Rows, NEW row, IsRow(r, row),
         r \in ProbeRows => row.kind # "disabled", NEW c \in ToConfig(r, row)
  PROVE  IsChannel(c)
<1>1. CASE r \in SerialRows
  BY <1>1 DEF ToConfig, IsChannel, ChannelTypes, ProbeKinds
<1>2. CASE r \in CanRows
  BY <1>2, ConfigurationAssumption DEF ToConfig, IsChannel, ChannelTypes, ProbeKinds
<1>3. CASE r \in ProbeRows
  BY <1>3, ConfigurationAssumption DEF ToConfig, IsRow, IsProbeRow, IsChannel, ChannelTypes
<1> QED BY <1>1, <1>2, <1>3 DEF Rows

\* What _toggle_bridge() and main() check with find_problems() are channels.
LEMMA SubmittedChannels ==
  ASSUME RowsInv, ClickStart \/ Main, ~Unreadable
  PROVE  \E cfg : Submit(cfg) /\ \A i \in DOMAIN cfg : IsChannel(cfg[i])
<1>1. CASE ClickStart
  <2> DEFINE enabled == {r \in DOMAIN rows : Enabled(r)}
             cfg == [r \in enabled |-> CHOOSE c \in ToConfig(r, rows[r]) : TRUE]
  <2>1. Submit(cfg) /\ \A r \in enabled : ToConfig(r, rows[r]) # {}
    BY <1>1 DEF ClickStart
  <2>2. ASSUME NEW r \in DOMAIN cfg PROVE IsChannel(cfg[r])
    <3>1. cfg[r] \in ToConfig(r, rows[r])
      BY <2>1
    <3>2. r \in Rows /\ IsRow(r, rows[r]) /\ (r \in ProbeRows => rows[r].kind # "disabled")
      BY ConfigurationAssumption DEF RowsInv, TypeOK, Rows, Enabled
    <3> QED BY <3>1, <3>2, RowTypes
  <2> HIDE DEF cfg
  <2> QED BY <2>1, <2>2
<1>2. CASE Main
  <2>1. PICK args \in CommandLines :
          /\ \A i \in DOMAIN args : FromFlag(args[i][1], args[i][2]) # {}
          /\ Submit([i \in DOMAIN args |-> CHOOSE c \in FromFlag(args[i][1], args[i][2]) : TRUE])
    BY <1>2 DEF Main
  <2> DEFINE cfg == [i \in DOMAIN args |-> CHOOSE c \in FromFlag(args[i][1], args[i][2]) : TRUE]
  <2>2. ASSUME NEW i \in DOMAIN cfg PROVE IsChannel(cfg[i])
    <3>1. cfg[i] \in FromFlag(args[i][1], args[i][2])
      BY <2>1
    <3> QED BY <3>1, FlagTypes
  <2>3. Submit(cfg)
    BY <2>1
  <2> HIDE DEF cfg
  <2> QED BY <2>2, <2>3
<1> QED BY <1>1, <1>2

\* What is started has no problems, what is refused has one.
LEMMA SubmitVerdict ==
  ASSUME NEW cfg, Submit(cfg), \A i \in DOMAIN cfg : IsChannel(cfg[i])
  PROVE  StartedSound' /\ RefusedUnsound'
<1>1. config' = cfg
  BY DEF Submit
<1>2. CASE HasProblems(cfg)
  <2>1. phase' = "refused"
    BY <1>2 DEF Submit
  <2>2. ~Sound(cfg) \/ \E i \in DOMAIN cfg : cfg[i].type = "stlink" /\ cfg[i].telnet # {}
    BY <1>2, ProblemsUnsound
  <2> QED BY <1>1, <2>1, <2>2 DEF StartedSound, RefusedUnsound
<1>3. CASE ~HasProblems(cfg)
  <2>1. phase' = "started"
    BY <1>3 DEF Submit
  <2>2. Sound(cfg)
    BY <1>3, NoProblemsSound DEF IsChannel
  <2> QED BY <1>1, <2>1, <2>2 DEF StartedSound, RefusedUnsound
<1> QED BY <1>2, <1>3

LEMMA StepVerdict ==
  RowsInv /\ StartedSound /\ RefusedUnsound /\ [Next]_vars => StartedSound' /\ RefusedUnsound'
<1> SUFFICES ASSUME RowsInv, StartedSound, RefusedUnsound, [Next]_vars
             PROVE  StartedSound' /\ RefusedUnsound'
  OBVIOUS
<1> USE DEF StartedSound, RefusedUnsound
<1>1. CASE Editing \/ BackToEditing
  BY <1>1 DEF Editing, BackToEditing
<1>2. CASE Unreadable
  BY <1>2 DEF Unreadable
<1>3. CASE (ClickStart \/ Main) /\ ~Unreadable
  BY <1>3, SubmittedChannels, SubmitVerdict
<1>4. CASE UNCHANGED vars
  BY <1>4 DEF vars
<1>5. Editing \/ BackToEditing \/ ClickStart \/ Main \/ UNCHANGED vars
  BY DEF Next, AddRow, RemoveRow, Choose, TypeNumber, TypeSerial, Edit, DetectProbe, DetectCan,
         ChangeKind
<1> QED BY <1>1, <1>2, <1>3, <1>4, <1>5

\* find_problems() lets nothing pass that cannot run together, whatever is on the command
\* line or in the rows.
THEOREM StartedSoundHolds == Spec => []StartedSound
<1>1. Init => StartedSound /\ RefusedUnsound
  BY DEF Init, StartedSound, RefusedUnsound
<1> QED BY <1>1, StepVerdict, RowsInvariance, PTL DEF Spec

\* And it refuses nothing that could run together, but for an ST-LINK given a telnet port.
THEOREM RefusedUnsoundHolds == Spec => []RefusedUnsound
<1>1. Init => StartedSound /\ RefusedUnsound
  BY DEF Init, StartedSound, RefusedUnsound
<1> QED BY <1>1, StepVerdict, RowsInvariance, PTL DEF Spec

----------------------------------------------------------------------------
(* Who names which probe                                                   *)

LEMMA WithPinned ==
  ASSUME RowsInv, PinnedApart, NEW r \in Rows, NEW row,
         rows' = With(r, row), moved' \in {moved, moved \union {r}},
         r \in ProbeRows \ moved' =>
           \A q \in ((DOMAIN rows \intersect ProbeRows) \ {r}) \ moved :
             rows[q].kind = row.kind /\ row.kind \in HasSerial =>
               row.serial[row.kind] \intersect rows[q].serial[row.kind] = {}
  PROVE  PinnedApart'
<1>1. /\ DOMAIN rows' = DOMAIN rows \union {r}
      /\ rows'[r] = row
      /\ \A q \in DOMAIN rows \ {r} : rows'[q] = rows[q]
  BY DEF With
<1>2. ASSUME NEW p \in (DOMAIN rows' \intersect ProbeRows) \ moved',
             NEW q \in (DOMAIN rows' \intersect ProbeRows) \ moved',
             p # q, rows'[p].kind = rows'[q].kind, rows'[p].kind \in HasSerial
      PROVE  rows'[p].serial[rows'[p].kind] \intersect rows'[q].serial[rows'[q].kind] = {}
  <2>1. CASE p # r /\ q # r
    BY <1>1, <1>2, <2>1 DEF PinnedApart
  <2>2. CASE p = r
    <3>1. q \in ((DOMAIN rows \intersect ProbeRows) \ {r}) \ moved /\ rows'[q] = rows[q]
      BY <1>1, <1>2, <2>2
    <3> QED BY <1>1, <1>2, <2>2, <3>1
  <2>3. CASE q = r
    <3>1. p \in ((DOMAIN rows \intersect ProbeRows) \ {r}) \ moved /\ rows'[p] = rows[p]
      BY <1>1, <1>2, <2>3
    <3>2. row.serial[row.kind] \intersect rows[p].serial[row.kind] = {}
      BY <1>1, <1>2, <2>3, <3>1
    <3> QED BY <1>1, <1>2, <2>3, <3>1, <3>2
  <2> QED BY <2>1, <2>2, <2>3
<1> QED BY <1>2 DEF PinnedApart

LEMMA DetectProbePinned ==
  ASSUME RowsInv, PinnedApart, NEW r \in Rows, NEW p \in Detected, DetectProbe(r, p)
  PROVE  PinnedApart'
<1>1. PICK row, new :
        /\ r \in ProbeRows /\ r \in DOMAIN rows
        /\ IsRow(r, row) /\ row.serial = rows[r].serial
        /\ rows[r].kind \in {"disabled", row.kind}
        /\ r \notin typed =>
             /\ Chosen(r, row)
             /\ \/ \A s \in Listens(r, row) : s[2] \notin UsedPorts(r)
                \/ Listens(r, row) = Listens(r, rows[r])
        /\ \/ new = row
           \/ /\ new = Pinned(row, p[2]) /\ p[1] = row.kind
              /\ \A s \in p[2] : <<p[1], s>> \notin UsedProbes(r)
        /\ rows' = With(r, new)
  BY DetectedRow
<1>2. moved' = moved
  BY DEF DetectProbe
<1>3. /\ new.kind = row.kind
      /\ \A k \in HasSerial : \/ new.serial[k] = row.serial[k]
                              \/ /\ new.serial[k] = p[2] /\ p[1] = row.kind
                                 /\ \A s \in p[2] : <<p[1], s>> \notin UsedProbes(r)
  BY <1>1, PinnedRow
<1>4. ASSUME r \notin moved, NEW q \in ((DOMAIN rows \intersect ProbeRows) \ {r}) \ moved,
             rows[q].kind = new.kind, new.kind \in HasSerial
      PROVE  new.serial[new.kind] \intersect rows[q].serial[new.kind] = {}
  <2>1. CASE new.serial[new.kind] = row.serial[new.kind]
    <3>1. CASE rows[r].kind = new.kind
      BY <1>1, <1>4, <2>1, <3>1 DEF PinnedApart
    <3>2. CASE rows[r].kind # new.kind
      BY <1>1, <1>4, <2>1, <3>2 DEF RowsInv, OneProbe
    <3> QED BY <3>1, <3>2
  <2>2. CASE new.serial[new.kind] = p[2] /\ \A s \in p[2] : <<new.kind, s>> \notin UsedProbes(r)
    <3>1. \A s \in rows[q].serial[new.kind] : <<new.kind, s>> \in UsedProbes(r)
      BY <1>4 DEF UsedProbes
    <3> QED BY <2>2, <3>1
  <2> QED BY <1>3, <1>4, <2>1, <2>2
<1> QED BY <1>1, <1>2, <1>4, WithPinned

LEMMA StepPinned == RowsInv /\ PinnedApart /\ [Next]_vars => PinnedApart'
<1> SUFFICES ASSUME RowsInv, PinnedApart, [Next]_vars PROVE PinnedApart'
  OBVIOUS
<1>1. CASE rows' = rows /\ moved' = moved
  BY <1>1 DEF PinnedApart
<1>2. ASSUME NEW r \in Rows, AddRow(r) PROVE PinnedApart'
  <2>1. PICK row : rows' = With(r, row) /\ (r \in ProbeRows => row = ProbeRow)
    BY <1>2, ConfigurationAssumption DEF AddRow
  <2>2. \A k \in HasSerial : ProbeRow.serial[k] = {}
    BY DEF ProbeRow
  <2>3. moved' = moved
    BY <1>2 DEF AddRow
  <2> QED BY <2>1, <2>2, <2>3, WithPinned
<1>3. ASSUME NEW r \in Rows, RemoveRow(r) PROVE PinnedApart'
  <2>1. /\ DOMAIN rows' = DOMAIN rows \ {r} /\ moved' = moved \ {r}
        /\ \A q \in DOMAIN rows' : rows'[q] = rows[q]
    BY <1>3 DEF RemoveRow, Without
  <2> QED BY <2>1 DEF PinnedApart
<1>4. ASSUME NEW r \in Rows, Choose(r) PROVE PinnedApart'
  <2>1. \E row : rows' = With(r, row)
    BY <1>4 DEF Choose
  <2>2. r \notin ProbeRows /\ moved' = moved
    BY <1>4 DEF Choose
  <2> QED BY <2>1, <2>2, WithPinned
<1>5. ASSUME NEW r \in Rows, NEW f \in {"tcp", "gdb", "telnet", "rtt", "rate"}, NEW n,
             TypeNumber(r, f, n)
      PROVE  PinnedApart'
  <2> DEFINE row == [rows[r] EXCEPT ![f] = n]
  <2>1. rows' = With(r, row) /\ moved' = moved /\ r \in DOMAIN rows
    BY <1>5 DEF TypeNumber
  <2>2. r \in ProbeRows => row.kind = rows[r].kind /\ row.serial = rows[r].serial
    BY <2>1, ConfigurationAssumption DEF RowsInv, TypeOK, IsRow, IsProbeRow
  <2> HIDE DEF row
  <2>3. r \in ProbeRows \ moved' =>
           \A q \in ((DOMAIN rows \intersect ProbeRows) \ {r}) \ moved :
             rows[q].kind = row.kind /\ row.kind \in HasSerial =>
               row.serial[row.kind] \intersect rows[q].serial[row.kind] = {}
    BY <2>1, <2>2 DEF PinnedApart
  <2> QED BY <2>1, <2>3, WithPinned
<1>6. ASSUME NEW r \in Rows, NEW p \in Detected, TypeSerial(r, p[2]) PROVE PinnedApart'
  <2>1. \E row : rows' = With(r, row)
    BY <1>6 DEF TypeSerial
  <2>2. moved' = moved \union {r}
    BY <1>6 DEF TypeSerial
  <2> QED BY <2>1, <2>2, WithPinned
<1>7. ASSUME NEW r \in Rows, NEW k \in ProbeKinds \union {"disabled"}, ChangeKind(r, k)
      PROVE  PinnedApart'
  <2> DEFINE row == KindChanged(rows[r], k, UsedPorts(r))
  <2>1. /\ rows' = With(r, row) /\ moved' \in {moved, moved \union {r}}
        /\ r \notin moved' => \A j \in HasSerial : rows[r].serial[j] = {}
    BY <1>7 DEF ChangeKind
  <2>2. row.serial = rows[r].serial
    <3>1. r \in ProbeRows /\ IsRow(r, rows[r]) /\ IsFiniteSet(UsedPorts(r))
      BY <1>7, UsedFinite DEF ChangeKind, RowsInv, TypeOK
    <3> QED BY <3>1, KindChangedRow
  <2> HIDE DEF row
  <2> QED BY <2>1, <2>2, WithPinned
<1>8. ASSUME NEW r \in Rows, NEW a \in Adapters, DetectCan(r, a) PROVE PinnedApart'
  <2>1. \E row : rows' = With(r, row)
    BY <1>8 DEF DetectCan
  <2>2. r \notin ProbeRows /\ moved' = moved
    BY <1>8, ConfigurationAssumption DEF DetectCan
  <2> QED BY <2>1, <2>2, WithPinned
<1>9. CASE ClickStart \/ BackToEditing \/ Main \/ UNCHANGED vars
  BY <1>1, <1>9 DEF ClickStart, BackToEditing, Main, vars
<1> QED BY <1>2, <1>3, <1>4, <1>5, <1>6, <1>7, <1>8, <1>9, DetectProbePinned DEF Next, Rows

\* Rows that "Detect probes" filled in, and no one touched since, name different probes.
THEOREM PinnedApartHolds == Spec => []PinnedApart
<1>1. Init => PinnedApart
  <2> SUFFICES ASSUME Init PROVE \A r, q \in DOMAIN rows \intersect ProbeRows : r = q
    BY DEF PinnedApart
  <2>1. CASE rows = <<>>
    BY <2>1
  <2>2. ASSUME NEW s \in SerialRows, NEW c \in CanRows, NEW p \in ProbeRows,
               DOMAIN rows = {s, c, p}
        PROVE  \A r, q \in DOMAIN rows \intersect ProbeRows : r = q
    BY <2>2, ConfigurationAssumption
  <2> QED BY <2>1, <2>2 DEF Init
<1>2. RowsInv /\ PinnedApart /\ [Next]_vars => PinnedApart'
  BY StepPinned
<1> QED BY <1>1, <1>2, RowsInvariance, PTL DEF Spec
=============================================================================
