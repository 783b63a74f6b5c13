------------------------------ MODULE HostInfo ------------------------------
(***************************************************************************)
(* What the device client finds out about its host (mbot/util/util.go), as *)
(* functions of the facts a host answers with.  A fact that cannot be had  *)
(* is "" or [ok |-> FALSE]: the code drops nearly every error.  A string   *)
(* is opaque: Mentions and Skipped say what the code looks for in it.      *)
(*                                                                         *)
(* The server id is the sequence of the fields it is made of: SHA-256 is   *)
(* taken to be injective, and no field to contain the separator "|".       *)
(***************************************************************************)
EXTENDS Naturals, Sequences, SequencesExt

CONSTANTS
  Hosts,    \* hosts, records of facts
  Skipped,  \* names of interfaces that begin with a prefix of a virtual one
  Mentions  \* for names of makers and products: the cloud words in them

-----------------------------------------------------------------------------
(* The report.                                                              *)

OSInfo == [name : STRING, version : STRING, kernel : STRING, arch : STRING, platform : STRING]
CPUInfo == [model : STRING, cores : Nat, usage : Nat]
MemoryInfo == [total : Nat, used : Nat, free : Nat, usage : Nat]
DiskInfo == [device : STRING, mount : STRING, total : Nat, used : Nat]

IP == [1 .. 4 -> 0 .. 255]
CIDR == [ip : IP, bits : 0 .. 32]

NetIF == [name : STRING, ips : Seq(IP), subnets : Seq(CIDR), up : BOOLEAN, private : BOOLEAN]
NetworkInfo ==
  [hostname : STRING, privateIPs : Seq(IP), publicIP : STRING,
   subnets : Seq(CIDR), interfaces : Seq(NetIF)]

VirtualInfo == [isVirtual : BOOLEAN, type : STRING, hypervisor : STRING]

HardwareField == {"manufacturer", "product", "serial", "uuid"}
HardwareInfo == [HardwareField -> STRING]

InstanceInfo ==
  [id : Seq(STRING), hostname : STRING, os : OSInfo, cpu : CPUInfo, memory : MemoryInfo,
   disk : Seq(DiskInfo), network : NetworkInfo, virtual : VirtualInfo, hardware : HardwareInfo]

\* What a field adds to the id: nothing if it is missing.
Given(field) == IF field = "" THEN <<>> ELSE <<field>>

-----------------------------------------------------------------------------
(* The facts.                                                               *)

\* An address of an interface: net.IPNet of either version, or something else.
AddressFact == [kind : {"ipv4", "ipv6", "other"}, cidr : CIDR]
InterfaceFact == [name : STRING, up : BOOLEAN, ok : BOOLEAN, addrs : Seq(AddressFact)]

\* What the libraries answer with has the types they declare; nothing is said of
\* a value beside an error.
IsHost(h) ==
  /\ h.hostname \in STRING /\ h.goos \in STRING /\ h.web \in STRING
  /\ h.info.ok \in BOOLEAN /\ h.info.hostId \in STRING
  /\ h.info.ok => h.info.os \in OSInfo /\ h.info.virtual \in STRING /\ h.info.role \in STRING
  /\ h.cpus \in Seq(STRING)
  /\ h.percent.ok \in BOOLEAN /\ (h.percent.ok => h.percent.value \in Nat)
  /\ h.memory.ok \in BOOLEAN /\ (h.memory.ok => h.memory.value \in MemoryInfo)
  /\ h.parts \in Seq(ToSet(h.parts))
  /\ \A p \in ToSet(h.parts) : p.ok \in BOOLEAN /\ (p.ok => p.value \in DiskInfo)
  /\ h.ifaces \in Seq(InterfaceFact)
  /\ h.dmi \in [HardwareField -> STRING] /\ h.wmic \in [HardwareField -> STRING]

ASSUME HostsAssumption == \A h \in Hosts : IsHost(h)

-----------------------------------------------------------------------------
(* Plausible bugs, one per property: variants of the definitions below that *)
(* no definition of the model uses.                                         *)

\* The block 172.16.0.0 is taken to be /16, as the one below it.
PrivateByClass(ip) ==
  ip[1] = 10 \/ (ip[1] = 172 /\ ip[2] = 16) \/ (ip[1] = 192 /\ ip[2] = 168)

\* One strong field is enough: the serial number, or else the uuid.
OneStrongField(cpu, hardware, hostname) ==
  LET strong == IF hardware["serial"] # "" THEN hardware["serial"] ELSE hardware["uuid"]
  IN Given(strong) \o Given(cpu.model) \o Given(hostname)

\* The partitions whose usage is an error are not passed over.
EveryPartition(h) == [k \in DOMAIN h.parts |-> h.parts[k].value]

-----------------------------------------------------------------------------
(* Network.                                                                 *)

isLoopback(ip) == ip[1] = 127
isLinkLocal(ip) == ip[1] = 169 /\ ip[2] = 254

\* The three blocks, as masks over the first two bytes.
isPrivateIP(ip) ==
  /\ ~isLoopback(ip) /\ ~isLinkLocal(ip)
  /\ \/ ip[1] = 10
     \/ ip[1] = 172 /\ ip[2] \div 16 = 1
     \/ ip[1] = 192 /\ ip[2] = 168

isValidInterface(iface) == iface.up /\ iface.name \notin Skipped

\* What a loop appends to its result, element by element: those that pass.
Kept(list, Test(_)) ==
  FlattenSeq([k \in DOMAIN list |-> IF Test(list[k]) THEN <<list[k]>> ELSE <<>>])

\* Each value once, where it first occurs.
unique(list) ==
  FlattenSeq([k \in DOMAIN list |->
    IF \E j \in 1 .. k - 1 : list[j] = list[k] THEN <<>> ELSE <<list[k]>>])

Project(addrs, Field(_)) == [k \in DOMAIN addrs |-> Field(addrs[k])]
IPs(addrs) == Project(addrs, LAMBDA a : a.cidr.ip)
Subnets(addrs) == Project(addrs, LAMBDA a : a.cidr)

\* The addresses of an interface that count: IPv4 and not loopback.
Addresses(iface) ==
  Kept(iface.addrs, LAMBDA a : a.kind = "ipv4" /\ ~isLoopback(a.cidr.ip))

Private(addrs) == Kept(addrs, LAMBDA a : isPrivateIP(a.cidr.ip))

\* "" as well if the request fails, or the answer does not parse.
getPublicIP(h) == IF h.web \in {"hangs", "fails"} THEN "" ELSE h.web

getNetwork(h) ==
  LET valid == Kept(h.ifaces, LAMBDA i : isValidInterface(i) /\ i.ok /\ Addresses(i) # <<>>)
      found == [k \in DOMAIN valid |-> Addresses(valid[k])]
      private == Private(FlattenSeq(found))
  IN [hostname |-> h.hostname,
      privateIPs |-> unique(IPs(private)),
      publicIP |-> getPublicIP(h),
      subnets |-> unique(Subnets(private)),
      interfaces |-> [k \in DOMAIN valid |->
        [name |-> valid[k].name, up |-> valid[k].up,
         ips |-> IPs(found[k]), subnets |-> Subnets(found[k]),
         private |-> Private(found[k]) # <<>>]]]

-----------------------------------------------------------------------------
(* Hardware and the id made from it.                                        *)

\* What is missing is read from /sys/class/dmi/id, where some files are root's.
fillFromDMI(info, h) ==
  [f \in HardwareField |-> IF info[f] = "" THEN h.dmi[f] ELSE info[f]]

\* The second line of what wmic prints; not asked for the uuid.
fillFromWmic(info, h) ==
  [f \in HardwareField |-> IF f # "uuid" /\ info[f] = "" THEN h.wmic[f] ELSE info[f]]

Clouds == <<"amazon", "alibaba", "tencent", "google", "microsoft">>
CloudNames == <<"AWS", "Alibaba Cloud", "Tencent Cloud", "GCP", "Azure">>

\* True of any TLA+ strings; the provers have to be told.
ASSUME LiteralsAssumption ==
  "" \in STRING /\ \A k \in DOMAIN CloudNames : CloudNames[k] \in STRING

\* The first cloud that the two names mention.
detectCloudVendor(info) ==
  LET words == Mentions[info["manufacturer"]] \cup Mentions[info["product"]]
      hit == SelectInSeq(Clouds, LAMBDA w : w \in words)
  IN IF hit = 0 THEN info ELSE [info EXCEPT !["manufacturer"] = CloudNames[hit]]

getHardware(h) ==
  LET start == [f \in HardwareField |-> IF f = "uuid" THEN h.info.hostId ELSE ""]
      filled == CASE h.goos = "linux" -> fillFromDMI(start, h)
                  [] h.goos = "windows" -> fillFromWmic(start, h)
                  [] OTHER -> start
      named == detectCloudVendor(filled)
  IN [named EXCEPT !["product"] = IF @ = "" THEN h.hostname ELSE @]

\* The fields that are there, the strong ones first.
GenerateServerID(cpu, hardware, hostname) ==
  Given(hardware["uuid"]) \o Given(hardware["serial"]) \o Given(cpu.model) \o Given(hostname)

-----------------------------------------------------------------------------
(* The rest of the report.                                                  *)

getOS(h) == h.info.os

getCPU(h) ==
  [model |-> IF h.cpus = <<>> THEN "" ELSE h.cpus[1],
   cores |-> Len(h.cpus),
   usage |-> h.percent.value]

getMemory(h) == h.memory.value

\* Partitions whose usage cannot be read are left out.
getDisk(h) ==
  LET read == Kept(h.parts, LAMBDA p : p.ok)
  IN Project(read, LAMBDA p : p.value)

getVirtual(h) ==
  [isVirtual |-> h.info.virtual # "", type |-> h.info.virtual, hypervisor |-> h.info.role]

\* The errors of these three are dropped and the missing result is used:
\* percent[0] of an empty slice, a field of a nil pointer.
Panics(h) == ~h.info.ok \/ ~h.percent.ok \/ ~h.memory.ok

\* The request for the public address has no time-out.
Hangs(h) == ~Panics(h) /\ h.web = "hangs"

CollectInstanceInfo(h) ==
  [id |-> GenerateServerID(getCPU(h), getHardware(h), h.hostname),
   hostname |-> h.hostname, os |-> getOS(h), cpu |-> getCPU(h), memory |-> getMemory(h),
   disk |-> getDisk(h), network |-> getNetwork(h), virtual |-> getVirtual(h),
   hardware |-> getHardware(h)]
=============================================================================
