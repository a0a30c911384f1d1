---------------------------- MODULE MCLifecycle ----------------------------
(* Both listeners, a few requests each, a short drain; started with one    *)
(* environment that is in order, with any one or two of its values         *)
(* replaced.                                                               *)
EXTENDS Lifecycle

Good == [scheme |-> "https", host |-> TRUE, user |-> FALSE, path |-> "none",
         query |-> "none", fragment |-> "none"]

Base ==
  [public_url |-> Good, s3_endpoint |-> Good, http_addr |-> Unset, admin_addr |-> Unset,
   client_id |-> "ours", private_key |-> "key", s3_region |-> "region",
   s3_bucket |-> "bucket", allowed |-> <<2, 1>>, dev_allow_http |-> Unset,
   s3_use_path_style |-> Unset, presign_ttl |-> Unset, max_object_size |-> Unset,
   log_level |-> Unset]

Nothing == {Unset, Blank}
URLs == URL \cup Nothing \cup {Word}
Names == Nothing \cup {"set"}
Addresses == Nothing \cup {Word, DefaultHTTPAddress, DefaultAdminAddress,
                           [host |-> "0.0.0.0", port |-> "8080"]}
Lists == Nothing \cup {<<>>, <<1>>, <<1, 2>>, <<1, 1>>, <<1, 3>>, <<1, 2, 1>>,
                       <<0>>, <<1, -1>>, <<1, Unset>>, <<Word>>}
Flags == Nothing \cup {Word, TRUE, FALSE}
TTLs == Nothing \cup {Word, -1, 0, 1, 2, MaxPresignTTL, MaxPresignTTL + 1}
Sizes == Nothing \cup {Word, -1, 0, 1, MaximumMaxObjectSize, MaximumMaxObjectSize + 1}
Levels == Nothing \cup {Word, "debug", "warning", "error", "fatal"}

EnvironmentsDef ==
       {[Base EXCEPT !.public_url = u, !.dev_allow_http = d] : u \in URLs, d \in Flags}
  \cup {[Base EXCEPT !.s3_endpoint = u, !.dev_allow_http = d] : u \in URLs, d \in Flags}
  \cup {[Base EXCEPT !.http_addr = h, !.admin_addr = a] : h, a \in Addresses}
  \cup {[Base EXCEPT !.client_id = i, !.private_key = k] : i \in Names, k \in Names \cup {Word}}
  \cup {[Base EXCEPT !.s3_region = r, !.s3_bucket = b] : r, b \in Names}
  \cup {[Base EXCEPT !.allowed = l, !.s3_use_path_style = p] : l \in Lists, p \in Flags}
  \cup {[Base EXCEPT !.presign_ttl = t, !.max_object_size = s] : t \in TTLs, s \in Sizes}
  \cup {[Base EXCEPT !.log_level = l] : l \in Levels}

FactsDef ==
  {[app |-> "ours", of |-> [i \in Installation |-> "ours"], bucket |-> TRUE],
   [app |-> "unnamed", of |-> [i \in Installation |-> IF i = 1 THEN "unnamed" ELSE "another"],
    bucket |-> TRUE]}

\* For the run about signals: one environment, in order.
BaseOnly == {Base}
=============================================================================
