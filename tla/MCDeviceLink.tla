---------------------------- MODULE MCDeviceLink ----------------------------
(* Hosts that differ in one respect from a plain one, and from each other.  *)
EXTENDS DeviceLink

Address(a, b, c, bits) == [kind |-> "ipv4", cidr |-> [ip |-> <<a, b, c, 1>>, bits |-> bits]]
V6 == [Address(0, 0, 0, 0) EXCEPT !.kind = "ipv6"]

Iface(name, addrs) == [name |-> name, up |-> TRUE, ok |-> TRUE, addrs |-> addrs]

Lan == Iface("eth0", <<Address(192, 168, 1, 24)>>)

NoFields == [f \in HardwareField |-> ""]

Plain ==
  [hostname |-> "alpha", goos |-> "linux", cpus |-> <<"xeon", "xeon">>,
   info |-> [ok |-> TRUE, hostId |-> "u1", virtual |-> "kvm", role |-> "guest",
             os |-> [name |-> "debian", version |-> "12", kernel |-> "6.1",
                     arch |-> "x86_64", platform |-> "linux"]],
   percent |-> [ok |-> TRUE, value |-> 7],
   memory |-> [ok |-> TRUE, value |-> [total |-> 8, used |-> 3, free |-> 5, usage |-> 37]],
   parts |-> <<[ok |-> FALSE, value |-> [device |-> "sdb1"]], [ok |-> TRUE, value |->
     [device |-> "sda1", mount |-> "root", total |-> 9, used |-> 4]]>>,
   ifaces |-> <<Lan>>, web |-> "203.0.113.7",
   dmi |-> NoFields, wmic |-> NoFields]

\* What the machine says of itself: uuid and serial number known or not.
Machines ==
  {[Plain EXCEPT !.info.hostId = u, !.dmi["serial"] = s, !.hostname = n] :
     u \in {"", "u1", "u2"}, s \in {"", "u1", "u2"}, n \in {"", "alpha"}}
  \cup {[Plain EXCEPT !.info.hostId = "", !.dmi["uuid"] = "u2"]}

\* Clouds, and other systems.
Makers ==
  {[Plain EXCEPT !.dmi["manufacturer"] = m, !.dmi["product"] = "Google Compute"] :
     m \in {"", "Dell", "Amazon EC2"}}
  \cup {[Plain EXCEPT !.goos = "windows", !.wmic["manufacturer"] = "Dell", !.wmic["serial"] = "s1"],
        [Plain EXCEPT !.goos = "darwin"]}

\* Addresses on both sides of every boundary.
Networks ==
  {[Plain EXCEPT !.ifaces = <<Iface("eth0", <<Address(p[1], p[2], 1, 24), V6>>), Lan>>] :
     p \in {<<9, 255>>, <<10, 0>>, <<11, 0>>, <<127, 0>>, <<169, 254>>, <<172, 15>>,
            <<172, 16>>, <<172, 31>>, <<172, 32>>, <<192, 167>>, <<192, 168>>, <<192, 169>>}}

\* Repeated addresses, interfaces that do not count, questions that fail.
Odd ==
  {[Plain EXCEPT !.ifaces = <<Lan, Iface("docker0", <<Address(172, 17, 0, 16)>>),
                              [Lan EXCEPT !.up = FALSE], [Lan EXCEPT !.ok = FALSE],
                              Iface("wlan0", <<V6, Address(127, 0, 0, 8)>>),
                              Iface("eth1", <<Address(192, 168, 1, 24), Address(8, 8, 8, 24)>>)>>],
   [Plain EXCEPT !.web = "fails"], [Plain EXCEPT !.web = "hangs"],
   [Plain EXCEPT !.cpus = <<>>], [Plain EXCEPT !.info.ok = FALSE],
   [Plain EXCEPT !.percent.ok = FALSE], [Plain EXCEPT !.memory.ok = FALSE]}

MCHosts == Machines \cup Makers \cup Networks \cup Odd

MCMentions ==
  [n \in {"", "Dell", "Amazon EC2", "Google Compute"} |->
     CASE n = "Amazon EC2" -> {"amazon"} [] n = "Google Compute" -> {"google"} [] OTHER -> {}]

\* A host that answers all questions but the request for its public address.
Unanswered == {[Plain EXCEPT !.web = "hangs"]}
=============================================================================
