---------------------------- MODULE MCReloadQueue ----------------------------
(***************************************************************************)
(* Instances of ReloadQueue.  The scripts stand for server.h's four kinds: *)
(*   "filter"    /etc/rc.filter_configure_sync      AGGREGATE | FCGICMD    *)
(*   "ifreload"  /etc/rc.interfaces_wan_configure   the same, with a param *)
(*   "newip"     /etc/rc.newwanip                   FCGICMD, with a param  *)
(*   "ntpd"      killall ntpd; ...                  AGGREGATE, /bin/sh     *)
(***************************************************************************)
EXTENDS ReloadQueue, TLC

Interfaces == {"wan", "opt1"}
NoParams == {""}

FilterAndNewip == {"filter", "newip"}
FilterOnly == {"filter"}
IfReloadOnly == {"ifreload"}
NewipOnly == {"newip"}
NtpdOnly == {"ntpd"}
NtpdAndNewip == {"ntpd", "newip"}
FilterNewipNtpd == {"filter", "newip", "ntpd"}
AllScripts == {"filter", "ifreload", "newip", "ntpd"}

AllAggregated == {"filter", "ifreload", "ntpd"}
AllFcgi == {"filter", "ifreload", "newip"}
AggregatedScripts == AllAggregated \cap Command
FcgiScripts == AllFcgi \cap Command

ScriptArguments ==
  [c \in Command |-> IF c = "ifreload" THEN {"wan", "opt1", "opt2"}
                     ELSE IF c = "newip" THEN Interfaces ELSE NoParams]

NoFaults == {}

=============================================================================
