---------------------------- MODULE ConfigCodec ----------------------------
(***************************************************************************)
(* The configuration as a string of tagged fields (cfConfig.c,             *)
(* cfTagEncoder.c): _createConfigString and _createKeyString write it,     *)
(* _cfConfigRead reads it, from a file or flash and from the payload of a  *)
(* CONFIG_SET; CONFIG_GET sends it.                                        *)
(*                                                                         *)
(* The writer and the reader each have their own list of tags and widths.  *)
(* A tag the reader does not know is skipped without its content, which is *)
(* then read as tags itself: harmless while it is all zeros.  A value is   *)
(* TRUE when it differs from the one cfConfigInit gives.                   *)
(***************************************************************************)
EXTENDS Integers, Sequences, SequencesExt

CONSTANTS
    Changeable,   \* the settings that are changed
    MaxChanges    \* bound: changes of the configuration and writes cut short

-----------------------------------------------------------------------------
(* The two lists.                                                          *)

\* What the writer writes, in its order, with the bytes of the content.
Writer ==
    << <<"header", 4>>, <<"hasPairs", 4>>, <<"debug", 4>>, <<"uuid0", 16>>, <<"uuid1", 16>>,
       <<"mode", 4>>, <<"wifi_ap", 4>>, <<"wifi_ap_dhcps", 4>>, <<"wifi_sta", 4>>,
       <<"wifi_sta_dhcpc", 4>>, <<"dhcps_range_low", 4>>, <<"dhcps_range_high", 4>>,
       <<"sta_ipv4", 4>>, <<"sta_ipv4netmask", 4>>, <<"sta_ipv4gw", 4>>, <<"sta_ipv4ns1", 4>>,
       <<"sta_ipv4ns2", 4>>, <<"sta_ntpv4", 4>>,
       <<"ap_ipv4", 4>>, <<"ap_ipv4netmask", 4>>, <<"ap_ipv4gw", 4>>, <<"ap_ipv4ns1", 4>>,
       <<"ap_ipv4ns2", 4>>,
       <<"sta_ipv6", 16>>, <<"sta_ipv6netmask", 16>>, <<"sta_ipv6gw", 16>>,
       <<"sta_ipv6ns1", 16>>, <<"sta_ipv6ns2", 16>>, <<"sta_ntpv6", 16>>,
       <<"ap_ipv6", 16>>, <<"ap_ipv6netmask", 16>>, <<"ap_ipv6gw", 16>>, <<"ap_ipv6ns1", 16>>,
       <<"ap_ipv6ns2", 16>>, <<"hostname", 32>>, <<"wifi_ap_ssid", 32>>,
       <<"wifi_ap_passwd", 64>>, <<"wifi_sta_ssid", 32>>, <<"wifi_sta_passwd", 64>> >>

KeyWriter == << <<"publickey", 32>>, <<"privatekey", 32>> >>

Key == {"publickey", "privatekey"}
Setting == {Writer[i][1] : i \in DOMAIN Writer} \ {"header"}

\* The tags the reader has a case for, by the bytes it takes.
Reader4 ==
    {"hasPairs", "debug", "mode", "wifi_ap", "wifi_ap_dhcps", "wifi_sta", "wifi_sta_dhcpc",
     "dhcps_range_low", "dhcps_range_high", "sta_ipv4", "sta_ipv4netmask", "sta_ipv4gw",
     "sta_ipv4ns1", "sta_ipv4ns2", "sta_ntpv4", "ap_ipv4", "ap_ipv4netmask", "ap_ipv4gw",
     "ap_ipv4ns1", "ap_ipv4ns2"}

Reader16 ==
    {"uuid0", "uuid1", "sta_ipv6", "sta_ipv6netmask", "sta_ipv6gw", "ap_ipv6ns1", "ap_ipv6ns2"}

Reader32(tag) ==
    IF tag \in {"hostname", "wifi_ap_ssid", "wifi_sta_ssid"} \cup Key THEN 32 ELSE 0

Reader64 == {"wifi_ap_passwd", "wifi_sta_passwd"}

\* 0 for a tag without a case.
ReaderWidth(tag) ==
    CASE tag \in Reader4 \cup {"header", "configLength"} -> 4
      [] tag \in Reader16 -> 16
      [] tag \in Reader64 -> 64
      [] OTHER -> Reader32(tag)

ConfigAssumption ==
    /\ Changeable \subseteq Setting \cup Key
    /\ MaxChanges \in Nat

-----------------------------------------------------------------------------
VARIABLES
    config,    \* the settings and keys that differ from cfConfigInit's
    image,     \* the fields in the file or in flash, and how it was left
    saved,     \* the configuration that was written last
    sent,      \* the tags of the last CONFIG_MESSAGE
    changes    \* how many changes were made
vars == <<config, image, saved, sent, changes>>

\* cfTagEncoder
Field(entry, c) == [tag |-> entry[1], width |-> entry[2], val |-> entry[1] \in c]

Encoded(list, c) == [i \in DOMAIN list |-> Field(list[i], c)]

Width(fields) == FoldLeft(LAMBDA n, f : n + 1 + f.width, 0, fields)

\* _createConfigString: the buffer has room for a configLength that is not
\* written; its bytes stay zero, tags without a case.
ConfigLength == 22 * 5 + 13 * 17 + 3 * 33 + 2 * 65

ConfigString(c) == Encoded(Writer, c)

\* _createKeyString
KeyString(c) == Encoded(KeyWriter, c)

\* cfConfigWrite
Image(c) == ConfigString(c) \o KeyString(c) \o << [tag |-> "eof", width |-> 0, val |-> FALSE] >>

\* One round of the loop of _cfConfigRead.  Content that is read as tags, or
\* a width the two disagree on, leaves the reader at no field's start.
TakeField(st, f) ==
    IF st.at # "reading" THEN st
    ELSE CASE f.tag = "eof" -> [st EXCEPT !.at = "end"]
           [] ReaderWidth(f.tag) = 0 /\ f.tag # "eof" ->
                IF f.val THEN [st EXCEPT !.at = "lost"] ELSE st
           [] ReaderWidth(f.tag) # 0 /\ ReaderWidth(f.tag) # f.width -> [st EXCEPT !.at = "lost"]
           [] ReaderWidth(f.tag) = f.width /\ f.tag = "header" -> st
           [] OTHER ->
                [st EXCEPT !.config = IF f.val THEN @ \cup {f.tag} ELSE @ \ {f.tag}]

\* How the reader goes through the fields.
Course(c, fields) ==
    LET st[n \in 0 .. Len(fields)] ==
            IF n = 0 THEN [config |-> c, at |-> "reading"] ELSE TakeField(st[n - 1], fields[n])
    IN  st

\* Mutated: nothing is taken unless the end mark is found.
ParseWhole(c, fields) ==
    LET st == Course(c, fields)[Len(fields)] IN
    IF st.at = "reading" THEN [st EXCEPT !.config = c] ELSE st

Parse(c, fields) == Course(c, fields)[Len(fields)]

\* What a reader that has lost its place makes of the rest is anything.
Read(c, fields) ==
    LET st == Parse(c, fields) IN
    IF st.at = "lost" THEN SUBSET (st.config \cup Changeable) ELSE {st.config}

-----------------------------------------------------------------------------
Init ==
    /\ config = {} /\ saved = {}
    /\ image = [fields |-> <<>>, whole |-> TRUE]
    /\ sent = {} /\ changes = 0

\* CONFIG_SET with a payload of one or two fields: cfConfigSetFromStr and
\* cfConfigWrite.
SetFromStr ==
    /\ changes < MaxChanges
    /\ \E a, b \in {t \in Changeable : ReaderWidth(t) # 0}, va, vb \in BOOLEAN :
         LET fields == << [tag |-> a, width |-> ReaderWidth(a), val |-> va],
                          [tag |-> b, width |-> ReaderWidth(b), val |-> vb] >> IN
         /\ config' \in Read(config, fields)
         /\ image' = [fields |-> Image(config'), whole |-> TRUE]
         /\ saved' = config'
    /\ changes' = changes + 1
    /\ UNCHANGED sent

\* What the shell, the command line or a program sets in memory; a host
\* program that is asked to writes the configuration then.
Assign ==
    /\ changes < MaxChanges
    /\ \E s \in Changeable : config' = config \cup {s}
    /\ changes' = changes + 1
    /\ UNCHANGED <<image, saved, sent>>

Write ==
    /\ image' = [fields |-> Image(config), whole |-> TRUE]
    /\ saved' = config
    /\ UNCHANGED <<config, sent, changes>>

\* What a write of c leaves that is cut short inside field n: the bytes of that
\* field that are missing are read from whatever follows, if its tag is read at
\* all.
CutImages(c, n) ==
    {[i \in 1 .. n |-> IF i = n THEN [Image(c)[i] EXCEPT !.val = v] ELSE Image(c)[i]] :
        v \in {w \in BOOLEAN :
            w => Image(c)[n].tag \in Changeable /\ ReaderWidth(Image(c)[n].tag) # 0}}

CutWrite ==
    /\ changes < MaxChanges
    /\ changes' = changes + 1
    /\ \E n \in DOMAIN Image(config) : \E fields \in CutImages(config, n) :
         image' = [fields |-> fields, whole |-> FALSE]
    /\ saved' = config
    /\ UNCHANGED <<config, sent>>

\* A program starts: cfConfigInit, then cfConfigRead.
Restart ==
    /\ config' \in Read({}, image.fields)
    /\ UNCHANGED <<image, saved, sent, changes>>

\* CONFIG_GET
ConfigGet ==
    /\ sent' = {f.tag : f \in Range(ConfigString(config))}
    /\ UNCHANGED <<config, image, saved, changes>>

Next == SetFromStr \/ Assign \/ Write \/ CutWrite \/ Restart \/ ConfigGet

Spec == Init /\ [][Next]_vars

-----------------------------------------------------------------------------
TypeOK ==
    /\ config \subseteq Changeable /\ saved \subseteq Changeable
    /\ \A i \in DOMAIN image.fields : image.fields[i].val \in BOOLEAN
    /\ image.whole \in BOOLEAN
    /\ sent \subseteq Setting \cup Key \cup {"header"}
    /\ changes \in 0 .. MaxChanges
    /\ Width(ConfigString(config)) <= ConfigLength

\* What lies in the file or in flash is the configuration that was written last,
\* whole or in part, if any was.
ImageOfSaved ==
    \/ image = [fields |-> <<>>, whole |-> TRUE]
    \/ image = [fields |-> Image(saved), whole |-> TRUE]
    \/ \E n \in DOMAIN Image(saved) : \E fields \in CutImages(saved, n) :
        image = [fields |-> fields, whole |-> FALSE]

\* What was written whole is what the next start reads, every setting and
\* both keys.  Settings the reader has no case for must not be set for it.
RestartRestores ==
    image.whole /\ image.fields # <<>> => Read({}, image.fields) = {saved}

\* A write that is cut short costs the settings behind the cut, and may
\* spoil the one at the cut; those before it are read as they were written.
CutSparesTheRest ==
    LET Before == {image.fields[i].tag : i \in 1 .. Len(image.fields) - 1} IN
    ~image.whole =>
        \A c \in Read({}, image.fields), s \in Before : s \in c <=> s \in saved

\* A CONFIG_MESSAGE carries every setting and no key.
KeysStayHome == sent # {} => sent = Setting \cup {"header"}

=============================================================================
