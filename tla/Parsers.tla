------------------------------ MODULE Parsers ------------------------------
(***************************************************************************)
(* The parsers of log lines (cybersafe_agent/parsers): what each one makes   *)
(* of a line, as its severity, its type and the fields it found.  A line of   *)
(* free text is the set of marks (texts, patterns) it holds; the parsers     *)
(* look for them in the order of their code.                               *)
(***************************************************************************)
EXTENDS Integers, Sequences

CONSTANTS
    Statuses,       \* the statuses of a request
    Columns,        \* the columns that a file of IIS may declare
    MaxValues,      \* the values of a line of IIS
    EventIds        \* the IDs of events of Windows

ASSUME ParsersAssumption ==
    Statuses \cup EventIds \subseteq Int /\ Columns \subseteq Seq(STRING) /\ MaxValues \in Nat

Severities == {"info", "low", "medium", "high", "critical"}
Event(severity, type, fields) == [severity |-> severity, type |-> type, fields |-> fields]

\* The first of a list of <<condition, value>> whose condition holds.
FirstOf(list, default) ==
    LET held == {i \in DOMAIN list : list[i][1]}
    IN  IF held = {} THEN default ELSE list[CHOOSE i \in held : \A j \in held : i <= j][2]

-----------------------------------------------------------------------------
(* Web servers.  A line has a layout; its request may be malformed (an        *)
(* unknown method, nothing at all) and the line itself cut.                  *)
WebLines == [layout : {"combined", "common"}, request : BOOLEAN, cut : BOOLEAN, status : Statuses,
             named : BOOLEAN, format : {"auto", "combined", "common"}]

\* Mutant: the ranges come before the statuses of their own.
AccessByRange(status) ==
    FirstOf(<<<<status \in 500 .. 599, <<"high", "5xx">>>>,
              <<status \in 400 .. 499, <<"medium", "4xx">>>>>>, <<"info", "access">>)
Access(status) ==
    FirstOf(<<<<status \in {401, 403}, <<"high", "access_denied">>>>,
              <<status = 404, <<"low", "404">>>>,
              <<status = 444, <<"high", "conn_closed">>>>,
              <<status \in 500 .. 599, <<"high", "5xx">>>>,
              <<status \in 400 .. 499, <<"medium", "4xx">>>>>>, <<"info", "access">>)

\* The three patterns.  RE_APACHE_COMMON ends with the line; the loose one
\* asks neither for a request nor for what follows the size.
IsCombined(line) == line.layout = "combined" /\ line.request /\ ~line.cut
IsCommon(line) == line.layout = "common" /\ line.request /\ ~line.cut
IsLoose(line) == ~line.cut

Base == {"ip", "status", "size"}
CombinedFields(line) == Base \cup {"method", "path", "user_agent"} \cup (IF line.named THEN {"user"} ELSE {})
CommonFields(line) == Base \cup {"method", "path", "log_format"} \cup (IF line.named THEN {"user"} ELSE {})
LooseFields == Base \cup {"request_raw", "parse_partial"}
Failed == {"parse_failed"}

NginxFields(line) ==
    FirstOf(<<<<IsCombined(line), CombinedFields(line)>>, <<IsLoose(line), LooseFields>>>>, Failed)

\* A line declared "common" has no loose reading.
ApacheFields(line) ==
    IF line.format = "common"
    THEN FirstOf(<<<<IsCommon(line), CommonFields(line)>>,
                   <<IsCombined(line), CombinedFields(line)>>>>, Failed)
    ELSE FirstOf(<<<<IsCombined(line), CombinedFields(line)>>,
                   <<IsCommon(line), CommonFields(line)>>,
                   <<IsLoose(line), LooseFields>>>>, Failed)

WebEvent(fields, status) ==
    IF "parse_failed" \in fields THEN Event("info", "access_unparsed", fields)
    ELSE LET access == Access(IF "status" \in fields THEN status ELSE 0)
         IN  Event(access[1], access[2], fields)
Nginx(line) == WebEvent(NginxFields(line), line.status)
Apache(line) == WebEvent(ApacheFields(line), line.status)

-----------------------------------------------------------------------------
(* IIS.  The columns are those of the last #Fields of the file, or the       *)
(* default ones; values are read by position, those that are missing are not. *)
IisDefault == <<"s-ip", "cs-method", "c-ip", "sc-status", "sc-substatus">>
IisLines == [comment : BOOLEAN, known : BOOLEAN, columns : Columns, values : 0 .. MaxValues,
             addresses : BOOLEAN, numbers : BOOLEAN, status : Statuses]

IisColumns(line) == IF line.known THEN line.columns ELSE IisDefault
IisFields(line) ==
    LET present == {IisColumns(line)[i] : i \in 1 .. Len(IisColumns(line)) \cap 1 .. line.values}
        found == (IF present \cap {"c-ip", "s-ip"} # {} /\ line.addresses THEN {"ip"} ELSE {})
                 \cup (IF "cs-method" \in present THEN {"method"} ELSE {})
                 \cup (IF "sc-status" \in present /\ line.numbers THEN {"status"} ELSE {})
                 \cup (IF "sc-substatus" \in present /\ line.numbers THEN {"substatus"} ELSE {})
    IN  IF line.values < 2 \/ {"ip", "status"} \cap found = {} THEN Failed
        ELSE found \cup (IF line.known THEN {} ELSE {"parse_partial"})

Iis(line) ==
    IF line.comment THEN Event("info", "log_meta", {"comment"})
    ELSE WebEvent(IisFields(line), line.status)

-----------------------------------------------------------------------------
(* The error log of nginx.                                                   *)
Levels == {"debug", "info", "notice", "warn", "error", "crit", "alert", "emerg", "other"}
ErrorLines == [matches : BOOLEAN, level : Levels, client : BOOLEAN]
ErrorSeverity(level) ==
    CASE level \in {"debug", "info", "notice"} -> "info"
      [] level = "warn" -> "low"
      [] level \in {"crit", "alert", "emerg"} -> "high"
      [] OTHER -> "medium"
NginxError(line) ==
    IF ~line.matches THEN Event("info", "error_unparsed", Failed)
    ELSE Event(ErrorSeverity(line.level), "error",
               {"level", "error_message"} \cup (IF line.client THEN {"client_ip"} ELSE {}))

-----------------------------------------------------------------------------
(* syslog and the firewall.  Texts that the code takes alike are one mark:    *)
(* the three disconnections before authentication, the two logons accepted.  *)
SyslogMarks == {"failed password", "authentication failure", "invalid user", "[preauth]",
                "connection closed", "pam_unix(sshd:auth)", "user unknown", "accepted",
                "sudo:", "command=", "session opened", "session closed", "error", "critical"}
Syslog(marks) ==
    LET has(m) == m \subseteq marks
        found == FirstOf(<<
            <<has({"failed password"}), <<"high", "ssh_failed_login">>>>,
            <<has({"authentication failure"}), <<"high", "auth_failure">>>>,
            <<has({"invalid user"}), <<"high", "invalid_user">>>>,
            <<has({"[preauth]", "connection closed"}), <<"medium", "ssh_preauth_disconnect">>>>,
            <<has({"pam_unix(sshd:auth)", "user unknown"}), <<"high", "invalid_user">>>>,
            <<has({"accepted"}), <<"medium", "ssh_login_success">>>>,
            <<has({"sudo:", "command="}), <<"medium", "sudo_command">>>>,
            <<has({"session opened"}), <<"info", "session_opened">>>>,
            <<has({"session closed"}), <<"info", "session_closed">>>>,
            <<has({"error"}) \/ has({"critical"}), <<"medium", "system_error">>>> >>, <<"info", "">>)
    IN  Event(found[1], found[2], {})

\* The text "nft reject" holds REJECT, which comes first.
FirewallMarks == {"UFW BLOCK", "UFW AUDIT", "DROP", "DENY", "REJECT", "iptables denied",
                  "nft drop or reject", "SRC=", "DPT="}
FirewallAction(marks) ==
    FirstOf(<<<<"UFW BLOCK" \in marks, "BLOCK">>, <<"UFW AUDIT" \in marks, "AUDIT">>,
              <<"DROP" \in marks, "DROP">>, <<"DENY" \in marks, "DENY">>,
              <<"REJECT" \in marks, "REJECT">>, <<"iptables denied" \in marks, "DROP">>,
              <<"nft drop or reject" \in marks, "DROP">>,
              <<{"SRC=", "DPT="} \subseteq marks, "BLOCK">>>>, "none")
Firewall(marks) ==
    IF FirewallAction(marks) = "none" THEN Event("info", "unparsed", {})
    ELSE Event("low", "block", {"event_kind", "action", "src_ip"}
                               \cup (IF "DPT=" \in marks THEN {"dst_port"} ELSE {}))

-----------------------------------------------------------------------------
(* Windows: from the XML of an event to the JSON line, and to the event.      *)
Channels == {"Security", "Application", ""}
Codes == {"none", "known", "unknown"}
EventData == {"user", "member", "ip"}
XmlLines == [valid : BOOLEAN, channel : Channels, id : EventIds, level : 0 .. 6,
             status : Codes, substatus : Codes, data : SUBSET EventData]

NativeLevel(level) ==
    CASE level = 1 -> "Critical" [] level = 2 -> "Error" [] level = 3 -> "Warning"
      [] level = 5 -> "Verbose" [] OTHER -> "Information"

\* _parse_event_xml: what is missing is empty, what is illegible "Unknown".
Json(xml) ==
    IF ~xml.valid THEN [channel |-> "Unknown", id |-> 0, level |-> "Information",
                        status |-> "none", substatus |-> "none", data |-> {}]
    ELSE [channel |-> IF xml.channel = "" THEN "Unknown" ELSE xml.channel, id |-> xml.id,
          level |-> NativeLevel(xml.level), status |-> xml.status, substatus |-> xml.substatus,
          data |-> xml.data]

\* The mapping of event IDs (a sample of each severity), then the native level.
\* The channel has no part in it.
WindowsType(id, level) ==
    FirstOf(<<<<id = 4624, <<"medium", "windows_logon_success">>>>,
              <<id = 4625, <<"high", "windows_logon_failed">>>>,
              <<id = 4634, <<"info", "windows_logoff">>>>,
              <<id = 4732, <<"high", "windows_user_added_to_local">>>>,
              <<id = 1102, <<"critical", "windows_audit_log_cleared">>>>,
              <<id = 1006, <<"critical", "windows_malware_detected">>>>,
              <<level = "Critical", <<"critical", "windows_unknown">>>>,
              <<level = "Error", <<"high", "windows_unknown">>>>,
              <<level = "Warning", <<"medium", "windows_unknown">>>>>>, <<"info", "windows_unknown">>)

\* The failure of a logon: its sub-status, then its status, if it is known.
FailureReason(json) ==
    FirstOf(<<<<json.substatus = "known", "substatus">>, <<json.status = "known", "status">>>>, "unknown")

\* In the events of a group, what is read as the user is the group.
WindowsFields(json) ==
    {"event_id"}
    \cup (IF json.id = 4732 /\ "user" \in json.data THEN (json.data \ {"user"}) \cup {"group"} ELSE json.data)
    \cup (IF json.id = 4625 THEN {"failure_reason"} ELSE {})

Windows(xml) ==
    LET json == Json(xml)
        found == WindowsType(json.id, json.level)
    IN  Event(found[1], found[2], WindowsFields(json))

=============================================================================
