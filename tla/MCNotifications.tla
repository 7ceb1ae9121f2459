---------------------------- MODULE MCNotifications ----------------------------
(* Small instances of Notifications and Mailer.                            *)
EXTENDS Notifications

OAuth == {"GMAIL", "ID_CLIENTE", "SECRETO_CLIENTE", "GOOGLE_REFRESH_TOKEN"}
\* No mail, a mail server, Gmail, Gmail without its account.
Servers == {{}, {"SMTP_HOST"}, OAuth, OAuth \ {"GMAIL"}}
=============================================================================
