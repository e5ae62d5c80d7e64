------------------------------ MODULE MCHttpd ------------------------------
EXTENDS Httpd

Val(text) == [text |-> text, tail |-> FALSE]

\* Sections that lack a managed key, hold one, come last, or do not appear.
MCDefault == << Header("system", FALSE), KeyValue("hostname", "lwrt", FALSE), Header("admin", FALSE), Other >>

MCFiles == {
    << Header("admin", FALSE), KeyValue("password", "good", FALSE), Header("wan", FALSE), KeyValue("key", "x", TRUE),
       Header("wifi", FALSE), KeyValue("key", "k0", TRUE) >>,
    << Header("admin", TRUE), KeyValue("password", "bad", FALSE), KeyValue("password_sha256", "good", FALSE) >> }

\* The form with a blank Wi-Fi key and a `#` in the name; one with a new key.
MCForms == {
    {[name |-> "hostname", val |-> [text |-> "a", tail |-> TRUE]], [name |-> "wifi_key", val |-> Val("")]},
    {[name |-> "wifi_key", val |-> Val("k1")], [name |-> "dhcp_enabled", val |-> Val("on")]} }

MCWord == STRING

ConnSymmetry == Permutations(Conn)
=============================================================================
