----------------------------- MODULE MCScraping ------------------------------
(* Scraping with texts of personal data only, on some of the platforms. *)
EXTENDS Scraping

MCPrivate == {<<"facebook", 2>>, <<"news", 1>>, <<"grok_topic", 2>>}

=============================================================================
