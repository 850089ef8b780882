---------------------------- MODULE AddressCalls ----------------------------
(****************************************************************************)
(* The calls on addresses and on small values, as tables for Outcomes.      *)
(*                                                                          *)
(* The getters of addresses see through what an address comes in: alone, in *)
(* an `IPAddress`, in a block of one family or in a `CIDR` of either.       *)
(****************************************************************************)
LOCAL INSTANCE Sequences
LOCAL INSTANCE TLC

\* As in Outcomes.
LOCAL Try(types) == types \cup {<<"thrown">>}
LOCAL Maybe(types) == types \cup {<<"Absent">>}

\* As in ImageCalls.
LOCAL Asks(reading) == <<"error">> \o reading

\* A family of calls that all cross alike.
LOCAL Each(calls, row) == [c \in calls |-> row]

\* The questions of all kinds of addresses.
LOCAL Tests == {
  "isUnspecified", "isLoopback", "isMulticast", "isLinkLocal", "isBroadcast", "isUniqueLocal",
  "isGlobalUnicast", "isDocumentation", "isV4", "isV6", "isLocallyAdministered", "lessThan", "contains"}

LOCAL Answers == Each(Tests, {<<"Bool">>})
LOCAL Only(table, calls) == [c \in calls |-> table[c]]

-----------------------------------------------------------------------------
(* What holds an address.                                                   *)

\* An `IPAddress` and a `CIDR` are of one family or the other.
IPAddresses == {<<"IPAddress", "v4">>, <<"IPAddress", "v6">>}
CIDRs == {<<"CIDR", "v4">>, <<"CIDR", "v6">>}

HoldsIPv4 == {<<"IPv4Address">>, <<"CIDRv4">>, <<"IPAddress", "v4">>, <<"CIDR", "v4">>}
HoldsIPv6 == {<<"IPv6Address">>, <<"CIDRv6">>, <<"IPAddress", "v6">>, <<"CIDR", "v6">>}

\* `isIPv6` chooses between the two getters of an address, so that either is
\* taken, and anything else is asked for an IPv4 address and traps.
AddressCasts == [
  ipv4Value |-> HoldsIPv4,
  ipv6Halves |-> HoldsIPv6,
  ipAddress |-> HoldsIPv4 \cup HoldsIPv6,
  prefixLength |-> {<<"CIDRv4">>, <<"CIDRv6">>, <<"Prefix">>} \cup CIDRs,
  macValue |-> {<<"MACAddress">>}]

-----------------------------------------------------------------------------
(* Addresses.                                                               *)

IPv4Tests == {"isUnspecified", "isLoopback", "isMulticast", "isLinkLocal", "isBroadcast", "lessThan"}

IPv4Returns == Only(Answers, IPv4Tests) @@ [
  fromBytes |-> Try({<<"IPv4Address">>}),
  parse |-> Try({<<"IPv4Address">>}),
  bytes |-> {<<"list", "UInt8">>},
  description |-> {<<"Text">>}]

IPv4Reads == Each(IPv4Tests, {Asks(<<"boolean">>)}) @@ [
  fromBytes |-> {Asks(<<"ipv4Value">>)},
  parse |-> {Asks(<<"ipv4Value">>)},
  bytes |-> {Asks(<<"bytes">>)},
  description |-> {Asks(<<"text">>)}]

IPv6Tests == {
  "isUnspecified", "isLoopback", "isMulticast", "isLinkLocal", "isUniqueLocal", "isGlobalUnicast",
  "isDocumentation", "lessThan"}

IPv6Returns == Only(Answers, IPv6Tests) @@ [
  parse |-> Try({<<"IPv6Address">>}),
  fromBytes |-> Try({<<"IPv6Address">>}),
  unspecified |-> {<<"IPv6Address">>},
  loopback |-> {<<"IPv6Address">>},
  bytes |-> {<<"list", "UInt8">>},
  description |-> {<<"Text">>}]

IPv6Reads == Each(IPv6Tests, {Asks(<<"boolean">>)}) @@ [
  parse |-> {Asks(<<"ipv6Halves">>)},
  fromBytes |-> {Asks(<<"ipv6Halves">>)},
  unspecified |-> {Asks(<<"ipv6Halves">>)},
  loopback |-> {Asks(<<"ipv6Halves">>)},
  bytes |-> {Asks(<<"bytes">>)},
  description |-> {Asks(<<"text">>)}]

IPAddressTests == {"isV4", "isV6", "isLoopback", "isMulticast", "isUnspecified"}

IPAddressReturns == Only(Answers, IPAddressTests) @@ [
  parse |-> Try(IPAddresses),
  description |-> {<<"Text">>},
  ipv4 |-> Maybe({<<"IPv4Address">>}),
  ipv6 |-> Maybe({<<"IPv6Address">>})]

IPAddressReads == Each(IPAddressTests, {Asks(<<"boolean">>)}) @@ [
  parse |-> {Asks(<<"ipAddress">>)},
  description |-> {Asks(<<"text">>)},
  ipv4 |-> {Asks(<<"optional", "ipv4Value">>)},
  ipv6 |-> {Asks(<<"optional", "ipv6Halves">>)}]

MACAddressTests == {"isLocallyAdministered", "isMulticast", "lessThan"}

MACAddressReturns == Only(Answers, MACAddressTests) @@ [
  new |-> {<<"MACAddress">>},
  fromBytes |-> Try({<<"MACAddress">>}),
  parse |-> Try({<<"MACAddress">>}),
  bytes |-> {<<"list", "UInt8">>},
  description |-> {<<"Text">>},
  ipv6Address |-> Try({<<"IPv6Address">>})]

MACAddressReads == Each(MACAddressTests, {Asks(<<"boolean">>)}) @@ [
  new |-> {Asks(<<"macValue">>)},
  fromBytes |-> {Asks(<<"macValue">>)},
  parse |-> {Asks(<<"macValue">>)},
  bytes |-> {Asks(<<"bytes">>)},
  description |-> {Asks(<<"text">>)},
  ipv6Address |-> {Asks(<<"ipv6Halves">>)}]

-----------------------------------------------------------------------------
(* Prefixes and blocks.                                                     *)

\* A 32-bit mask crosses as a UInt64, a 128-bit one in halves.
PrefixReturns == Each({"new", "ipv4", "ipv6"}, Maybe({<<"Prefix">>})) @@ [
  description |-> Try({<<"Text">>}),
  suffixMask32 |-> Try({<<"UInt64">>}),
  prefixMask32 |-> Try({<<"UInt64">>}),
  suffixMask128 |-> Try({<<"UInt128">>}),
  prefixMask128 |-> Try({<<"UInt128">>})]

PrefixReads == Each({"new", "ipv4", "ipv6"}, {Asks(<<"optional", "prefixLength">>)}) @@ [
  description |-> {Asks(<<"text">>)},
  suffixMask32 |-> {Asks(<<"number">>)},
  prefixMask32 |-> {Asks(<<"number">>)},
  suffixMask128 |-> {Asks(<<"wide">>)},
  prefixMask128 |-> {Asks(<<"wide">>)}]

\* A block crosses as its parts, and is made anew, which may throw, for each
\* question.
CIDRv4Returns ==
  Each({"parse", "new", "fromRange"}, Try({<<"CIDRv4">>}))
    @@ Each({"lower", "upper", "gateway"}, Try({<<"IPv4Address">>}))
    @@ [contains |-> Try({<<"Bool">>}), description |-> Try({<<"Text">>})]

CIDRv4Reads ==
  Each({"parse", "new", "fromRange"}, {Asks(<<"ipv4Value", "prefixLength">>)})
    @@ Each({"lower", "upper", "gateway"}, {Asks(<<"ipv4Value">>)})
    @@ [contains |-> {Asks(<<"boolean">>)}, description |-> {Asks(<<"text">>)}]

CIDRv6Returns ==
  Each({"parse", "new", "fromRange"}, Try({<<"CIDRv6">>}))
    @@ Each({"lower", "upper", "gateway"}, Try({<<"IPv6Address">>}))
    @@ [contains |-> Try({<<"Bool">>}), description |-> Try({<<"Text">>})]

CIDRv6Reads ==
  Each({"parse", "new", "fromRange"}, {Asks(<<"ipv6Halves", "prefixLength">>)})
    @@ Each({"lower", "upper", "gateway"}, {Asks(<<"ipv6Halves">>)})
    @@ [contains |-> {Asks(<<"boolean">>)}, description |-> {Asks(<<"text">>)}]

CIDRReturns ==
  Each({"parse", "new", "fromRange"}, Try(CIDRs))
    @@ Each({"address", "lower", "upper"}, Try(IPAddresses))
    @@ [prefix |-> Try({<<"Prefix">>}), contains |-> Try({<<"Bool">>}), description |-> Try({<<"Text">>})]

CIDRReads ==
  Each({"parse", "new", "fromRange"}, {Asks(<<"ipAddress", "prefixLength">>)})
    @@ Each({"address", "lower", "upper"}, {Asks(<<"ipAddress">>)})
    @@ [prefix |-> {Asks(<<"prefixLength">>)}, contains |-> {Asks(<<"boolean">>)},
        description |-> {Asks(<<"text">>)}]

-----------------------------------------------------------------------------
(* Small values.                                                            *)

CommandLineEdits == {"addDebug", "addPanic", "setAgentLogLevel"}

ValueReturns == Each(CommandLineEdits, {<<"CommandLine">>}) @@ [
  cloneMount |-> Try({<<"Mount">>}),
  tagHash |-> Try({<<"Text">>}),
  validateDNS |-> Try({<<"Void">>}),
  resolvConf |-> {<<"Text">>},
  hostsFile |-> {<<"Text">>},
  rendered |-> {<<"Text">>},
  namedHostsEntry |-> {<<"Hosts.Entry">>},
  newExitStatus |-> {<<"ExitStatus">>},
  parseLinuxRLimitKind |-> Try({<<"Text">>})]

KernelReads == Each(CommandLineEdits, {Asks(<<"commandLine">>)})

MountReads == [cloneMount |-> {Asks(<<"mount">>)}, tagHash |-> {Asks(<<"text">>)}]

DNSReads == [validateDNS |-> {Asks(<<>>)}, resolvConf |-> {Asks(<<"text">>)}]

HostsReads == [
  hostsFile |-> {Asks(<<"text">>)},
  rendered |-> {Asks(<<"text">>)},
  namedHostsEntry |-> {Asks(<<"hostsEntry">>)}]

ExitStatusReads == [newExitStatus |-> {Asks(<<"exitStatus", "check">>)}]

RLimitReads == [parseLinuxRLimitKind |-> {Asks(<<"text">>)}]

SignalReturns == [
  parseSignal |-> Try({<<"Int32">>}),
  parseSignalFrom |-> Try({<<"Int32">>}),
  linux |-> {<<"map", "Int32">>},
  platform |-> {<<"map", "Int32">>},
  platformName |-> Maybe({<<"Text">>}),
  linuxSignal |-> Maybe({<<"Int32">>})]

SignalReads == [
  parseSignal |-> {Asks(<<"int32">>)},
  parseSignalFrom |-> {Asks(<<"int32">>)},
  linux |-> {Asks(<<"map", "int32">>)},
  platform |-> {Asks(<<"map", "int32">>)},
  platformName |-> {Asks(<<"optional", "text">>)},
  linuxSignal |-> {Asks(<<"optional", "int32">>)}]

ExtrasReturns == [event |-> {<<"Text">>}, proxyFromEnvironment |-> Maybe({<<"Text">>})]

ExtrasReads == [
  event |-> {Asks(<<"text">>)},
  proxyFromEnvironment |-> {Asks(<<"optional", "text">>)}]

SmallCasts == [commandLine |-> {<<"CommandLine">>}, hostsEntry |-> {<<"Hosts.Entry">>}]

-----------------------------------------------------------------------------

AddressCallsReturns == [
  IPv4Address |-> IPv4Returns, IPv6Address |-> IPv6Returns, IPAddress |-> IPAddressReturns,
  MACAddress |-> MACAddressReturns, Prefix |-> PrefixReturns, CIDRv4 |-> CIDRv4Returns,
  CIDRv6 |-> CIDRv6Returns, CIDR |-> CIDRReturns, Values |-> ValueReturns, Signal |-> SignalReturns,
  Extras |-> ExtrasReturns]

AddressCallsReads == [
  IPv4Address |-> IPv4Reads, IPv6Address |-> IPv6Reads, IPAddress |-> IPAddressReads,
  MACAddress |-> MACAddressReads, Prefix |-> PrefixReads, CIDRv4 |-> CIDRv4Reads,
  CIDRv6 |-> CIDRv6Reads, CIDR |-> CIDRReads,
  Values |-> KernelReads @@ MountReads @@ DNSReads @@ HostsReads @@ ExitStatusReads @@ RLimitReads,
  Signal |-> SignalReads, Extras |-> ExtrasReads]

AddressCallsCasts == AddressCasts @@ SmallCasts
=============================================================================
