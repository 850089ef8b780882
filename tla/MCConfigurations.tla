--------------------------- MODULE MCConfigurations ---------------------------
(***************************************************************************)
(* Small instances of Configurations for TLC: one rich in values with no   *)
(* descriptors, and one of descriptors with few values.                    *)
(***************************************************************************)
EXTENDS Configurations

CONSTANT Files   \* what descriptors may be open on

Symmetry == Permutations(Files)

(* Keys 1 and 2 are spellings of one, and so are 3 and 4.                  *)
Pairs(k) == (k + 1) \div 2

Profile(mode, profile) == [mode |-> mode, profile |-> profile]
Interface(kind, v6) == [kind |-> kind, v6 |-> v6]
Mount(kind, options) == [kind |-> kind, options |-> options]
Hosts(entries) == [set |-> TRUE, entries |-> entries]

Manager ==
  [Default EXCEPT !.plain = "seeded", !.bootLog = [kind |-> "file", number |-> 0, handle |-> 0],
     !.mounts = <<Mount("virtiofs", <<"a", "b">>), Mount("shared", <<>>)>>]

RichSeeds ==
  {[Manager EXCEPT !.interfaces = <<Interface("nat", "x"), Interface("other", "absent"), Interface("vmnet", "absent")>>,
                   !.sysctl = [k \in {2, 3} |-> "old"], !.hosts = Hosts(<<>>)],
   [Manager EXCEPT !.interfaces = <<Interface("vmnet", "absent"), Interface("other", "x")>>, !.mounts = <<>>,
                   !.hosts = Hosts(<<"e", "f">>), !.seccomp = Profile("profile", "p"), !.sockets = <<"s">>]}

RichSettings ==
  {[Default EXCEPT !.plain = "set", !.sysctl = [k \in {1, 2, 4} |-> IF k = 1 THEN "low" ELSE "high"],
      !.interfaces = <<Interface("nat", "absent"), Interface("nat", "y"), Interface("vmnet", "absent")>>,
      !.mounts = <<Mount("shared", <<"sub">>), Mount("any", <<"c">>), Mount("virtioblk", <<>>)>>,
      !.hosts = Hosts(<<"g">>), !.sockets = <<"s", "t">>, !.seccomp = Profile("default", "absent")]}

Numbered(n) == [Default EXCEPT !.stdio = n, !.bootLog = [kind |-> "handle", number |-> n]]
Malformed == [Default EXCEPT !.bootLog = [kind |-> "malformed", number |-> 0]]
NumberSettings == {Numbered(n) : n \in 1..2} \cup {Malformed}

(* One program of many values, and one of descriptors.                     *)
TwoPrograms ==
  {[seeds |-> RichSeeds, settings |-> RichSettings, files |-> {}],
   [seeds |-> {Manager}, settings |-> NumberSettings, files |-> Files]}

=============================================================================
