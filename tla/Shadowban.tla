----------------------------- MODULE Shadowban -----------------------------
(****************************************************************************)
(* The moderation store (ws/shadowban.go): reports of an IP address, of     *)
(* which Threshold within a window ban it for a while, and the goroutine    *)
(* that prunes what has expired.  Every operation is one mutex section.     *)
(*                                                                          *)
(* counted is a history variable, the times of the reports that counted;    *)
(* reports[ip] holds the numbers of those that the store remembers.  Report *)
(* returns at once while a ban is in effect, and Report and IsBanned        *)
(* without an address: these are no steps here.                             *)
(****************************************************************************)
EXTENDS Clock, Sequences, FiniteSets

CONSTANTS
  Ip,
  Window, Threshold, Ban,  \* reportWindow, reportThreshold, banDuration
  MaxReports               \* bound on the reports of an address

ASSUME ShadowbanAssumption ==
  /\ {Window, Threshold} \subseteq Nat \ {0} /\ Ban \in Nat /\ MaxReports \in Nat
  /\ Window <= Ban

VARIABLES reports, bans, counted

shadowVars == <<reports, bans, counted>>

NoBan == 0 - 1   \* no entry in Shadowban.bans
----------------------------------------------------------------------------
ShadowInit ==
  /\ now = 0
  /\ reports = [ip \in Ip |-> {}]
  /\ bans = [ip \in Ip |-> NoBan]
  /\ counted = [ip \in Ip |-> <<>>]

Fresh(ip) == {i \in reports[ip] : counted[ip][i] > now - Window}

\* The reports that are left when this one has been added to those.
ReportOn(ip, old) ==
  LET this == Len(counted[ip]) + 1
      live == old \cup {this}
  IN
  /\ bans[ip] <= now
  /\ Len(counted[ip]) < MaxReports
  /\ counted' = [counted EXCEPT ![ip] = Append(@, now)]
  /\ IF Cardinality(live) >= Threshold
       THEN /\ bans' = [bans EXCEPT ![ip] = now + Ban]
            /\ reports' = [reports EXCEPT ![ip] = {}]
       ELSE /\ reports' = [reports EXCEPT ![ip] = live]
            /\ UNCHANGED bans

ReportAnyAge(ip) == ReportOn(ip, reports[ip])   \* old reports are not sorted out
Report(ip) == ReportOn(ip, Fresh(ip))

\* IsBanned(ip) says `no' and forgets the ban, or changes nothing.
Banned(ip) == bans[ip] # NoBan /\ bans[ip] >= now

IsBanned(ip) ==
  /\ bans[ip] # NoBan /\ bans[ip] < now
  /\ bans' = [bans EXCEPT ![ip] = NoBan]
  /\ UNCHANGED <<reports, counted>>

Prune ==
  /\ reports' = [ip \in Ip |-> Fresh(ip)]
  /\ bans' = [ip \in Ip |-> IF bans[ip] < now THEN NoBan ELSE bans[ip]]
  /\ UNCHANGED counted

ShadowStep == Prune \/ \E ip \in Ip : Report(ip) \/ IsBanned(ip)

ShadowNext == (ShadowStep /\ UNCHANGED now) \/ (Tick /\ UNCHANGED shadowVars)

ShadowSpec == ShadowInit /\ [][ShadowNext]_<<now, shadowVars>>
----------------------------------------------------------------------------
\* As many reports as it takes, the first and the last within the window.
Earned(ip, i) ==
  /\ i + Threshold - 1 \in DOMAIN counted[ip]
  /\ counted[ip][i + Threshold - 1] - counted[ip][i] < Window

\* Somebody is banned if and only if enough reports came within one window,
\* the last of them no longer ago than a ban lasts: pruning at any moment, bans
\* that ran out and reports that were counted before lose or add nothing.
BannedIffReported ==
  \A ip \in Ip :
    Banned(ip) <=>
      \E i \in DOMAIN counted[ip] :
        Earned(ip, i) /\ now <= counted[ip][i + Threshold - 1] + Ban
=============================================================================
